---- MODULE Spec2Model ----
(***************************************************************************)
(* Model of the ALM / EDS integration layer: the course-viewer action      *)
(* (main, fetchCourseData, processCourseData and the extract* helpers,     *)
(* generateCourseHTML, publishToEdsCache, fetchCourseInstances).           *)
(*                                                                         *)
(* JavaScript strings are sequences of one-character strings.  A           *)
(* JavaScript value is a record [k, s, n, kids]: k is the type tag, s the  *)
(* characters of a string, n the value of a number and kids the own        *)
(* properties of an object or the elements of an array, as a sequence of   *)
(* <<key, value>> pairs.                                                   *)
(***************************************************************************)
EXTENDS Integers, Sequences, FiniteSets

(* ----------------------------- strings -------------------------------- *)
S_UntitledCourse == <<"U","n","t","i","t","l","e","d"," ","C","o","u","r","s","e">>
S_NoDescription == <<"N","o"," ","d","e","s","c","r","i","p","t","i","o","n"," ","a","v","a","i","l","a","b","l","e">>
S_NoOverview == <<"N","o"," ","o","v","e","r","v","i","e","w"," ","a","v","a","i","l","a","b","l","e">>
S_NA == <<"N","/","A">>
S_NoSkills == <<"N","o"," ","s","k","i","l","l","s"," ","s","p","e","c","i","f","i","e","d">>
S_SelfPaced == <<"S","e","l","f","-","p","a","c","e","d">>
S_selfpaced == <<"s","e","l","f","-","p","a","c","e","d">>
S_LearningProgram == <<"L","e","a","r","n","i","n","g"," ","P","r","o","g","r","a","m">>
S_Course == <<"C","o","u","r","s","e">>
S_learningProgram == <<"l","e","a","r","n","i","n","g","P","r","o","g","r","a","m">>
S_skill == <<"s","k","i","l","l">>
S_skillLevel == <<"s","k","i","l","l","L","e","v","e","l">>
S_learningObjectInstance == <<"l","e","a","r","n","i","n","g","O","b","j","e","c","t","I","n","s","t","a","n","c","e">>
S_Module == <<"M","o","d","u","l","e">>
S_SCORM2004 == <<"S","C","O","R","M","2","0","0","4">>
S_completed == <<"c","o","m","p","l","e","t","e","d">>
S_inprogress == <<"i","n","-","p","r","o","g","r","e","s","s">>
S_LastVisited == <<"L","a","s","t"," ","v","i","s","i","t","e","d">>
S_InProgress == <<"I","n"," ","P","r","o","g","r","e","s","s">>
S_PrerequisiteCourse == <<"P","r","e","r","e","q","u","i","s","i","t","e"," ","C","o","u","r","s","e">>
S_JobAid == <<"J","o","b"," ","A","i","d">>
S_jobAid == <<"j","o","b","A","i","d">>
S_JobAidDescription == <<"J","o","b"," ","a","i","d"," ","d","e","s","c","r","i","p","t","i","o","n">>
S_DefaultImage == <<"h","t","t","p","s",":","/","/","i","m","a","g","e","s",".","u","n","s","p","l","a","s","h",".","c","o","m","/","p","h","o","t","o","-","1","5","1","6","3","2","1","3","1","8","4","2","3","-","f","0","6","f","8","5","e","5","0","4","b","3","?","w","=","1","2","0","0","&","q","=","8","0">>
S_OverlayPrefix == <<"/","o","v","e","r","v","i","e","w","/","t","r","a","i","n","i","n","g","I","d","/">>
S_overview == <<"o","v","e","r","v","i","e","w">>
S_trainingId == <<"t","r","a","i","n","i","n","g","I","d">>
S_trainingInstanceId == <<"t","r","a","i","n","i","n","g","I","n","s","t","a","n","c","e","I","d">>
S_amp == <<"&","a","m","p",";">>
S_lt == <<"&","l","t",";">>
S_gt == <<"&","g","t",";">>
S_quot == <<"&","q","u","o","t",";">>
S_apos == <<"&","#","0","3","9",";">>
S_null == <<"n","u","l","l">>
S_undefined == <<"u","n","d","e","f","i","n","e","d">>
S_ObjectObject == <<"[","o","b","j","e","c","t"," ","O","b","j","e","c","t","]">>
S_IsoPrefix == <<"1","9","7","0","-","0","1","-","0","1","T","0","0",":","0","0",":","0","0",".","0","0">>
S_TestConnection == <<"T","e","s","t"," ","C","o","n","n","e","c","t","i","o","n">>

Digits == <<"0","1","2","3","4","5","6","7","8","9">>

\* The decimal digits of a natural number, as String(n) gives them.
RECURSIVE NumToStr(_)
NumToStr(n) == IF n < 10 THEN <<Digits[n + 1]>>
               ELSE NumToStr(n \div 10) \o <<Digits[(n % 10) + 1]>>

\* Array.prototype.join on a sequence of strings.
RECURSIVE Join(_, _)
Join(strs, sep) == IF strs = <<>> THEN <<>>
                   ELSE IF Len(strs) = 1 THEN strs[1]
                   ELSE strs[1] \o sep \o Join(Tail(strs), sep)

\* String.prototype.includes
Includes(s, pat) ==
  \E i \in 0..(Len(s) - Len(pat)) : SubSeq(s, i + 1, i + Len(pat)) = pat

IndexOfChar(s, c) ==
  IF \E i \in 1..Len(s) : s[i] = c
  THEN CHOOSE i \in 1..Len(s) : s[i] = c /\ \A j \in 1..(i - 1) : s[j] # c
  ELSE 0

\* String.prototype.split on a one-character separator.
RECURSIVE Split(_, _)
Split(s, c) == LET i == IndexOfChar(s, c)
               IN IF i = 0 THEN <<s>>
                  ELSE <<SubSeq(s, 1, i - 1)>> \o Split(SubSeq(s, i + 1, Len(s)), c)

(* --------------------------- JavaScript values ------------------------ *)
JUndef == [k |-> "undefined", s |-> <<>>, n |-> 0, kids |-> <<>>]
JNull == [k |-> "null", s |-> <<>>, n |-> 0, kids |-> <<>>]
JStr(str) == [k |-> "string", s |-> str, n |-> 0, kids |-> <<>>]
JNum(num) == [k |-> "number", s |-> <<>>, n |-> num, kids |-> <<>>]
JObj(pairs) == [k |-> "object", s |-> <<>>, n |-> 0, kids |-> pairs]
JArr(items) == [k |-> "array", s |-> <<>>, n |-> 0,
                kids |-> [i \in 1..Len(items) |-> <<Digits[i], items[i]>>]]

Items(v) == [i \in 1..Len(v.kids) |-> v.kids[i][2]]

\* JavaScript truthiness.
Truthy(v) == CASE v.k = "undefined" -> FALSE
               [] v.k = "null" -> FALSE
               [] v.k = "string" -> v.s # <<>>
               [] v.k = "number" -> v.n # 0
               [] OTHER -> TRUE

DigitIndex(key) == IF \E i \in 1..10 : Digits[i] = key
                   THEN (CHOOSE i \in 1..10 : Digits[i] = key) - 1
                   ELSE -1

\* v[key] for a value that is not null or undefined: an own property of an
\* object or array, a character of a string, undefined otherwise.
Get(v, key) ==
  CASE v.k \in {"object", "array"} ->
         IF \E i \in 1..Len(v.kids) : v.kids[i][1] = key
         THEN v.kids[CHOOSE i \in 1..Len(v.kids) : v.kids[i][1] = key][2]
         ELSE JUndef
    [] v.k = "string" ->
         IF DigitIndex(key) >= 0 /\ DigitIndex(key) < Len(v.s)
         THEN JStr(<<v.s[DigitIndex(key) + 1]>>)
         ELSE JUndef
    [] OTHER -> JUndef

\* a || b
Or(a, b) == IF Truthy(a) THEN a ELSE b

\* The string a template literal interpolates for a value: String(v).
RECURSIVE JToString(_)
JToString(v) ==
  CASE v.k = "string" -> v.s
    [] v.k = "number" -> NumToStr(v.n)
    [] v.k = "null" -> S_null
    [] v.k = "undefined" -> S_undefined
    [] v.k = "array" ->
         Join([i \in 1..Len(v.kids) |->
                 IF v.kids[i][2].k \in {"null", "undefined"} THEN <<>>
                 ELSE JToString(v.kids[i][2])], <<",">>)
    [] OTHER -> S_ObjectObject

(* ------------------------------ helpers ------------------------------- *)
\* safeGet: path.split('.').reduce(...) starting from obj.
RECURSIVE safeGetFrom(_, _, _)
safeGetFrom(current, keys, defaultValue) ==
  IF keys = <<>> THEN current
  ELSE safeGetFrom(IF Truthy(current) /\ Get(current, keys[1]).k # "undefined"
                   THEN Get(current, keys[1])
                   ELSE defaultValue,
                   Tail(keys), defaultValue)

safeGet(obj, path, defaultValue) == safeGetFrom(obj, path, defaultValue)

\* formatDuration of a number of seconds (or a falsy value).
formatDuration(seconds) ==
  IF ~Truthy(seconds) THEN S_NA
  ELSE LET hours == seconds.n \div 3600
           minutes == (seconds.n % 3600) \div 60
       IN IF hours > 0
          THEN (IF minutes > 0
                THEN NumToStr(hours) \o <<"h", " ">> \o NumToStr(minutes) \o <<"m">>
                ELSE NumToStr(hours) \o <<"h">>)
          ELSE NumToStr(minutes) \o <<"m">>

EscapeChar(c) == CASE c = "&" -> S_amp
                   [] c = "<" -> S_lt
                   [] c = ">" -> S_gt
                   [] c = "\"" -> S_quot
                   [] c = "'" -> S_apos
                   [] OTHER -> <<c>>

\* text.replace(/[&<>"']/g, m => map[m])
RECURSIVE EscapeChars(_)
EscapeChars(str) == IF str = <<>> THEN <<>>
                    ELSE EscapeChar(str[1]) \o EscapeChars(Tail(str))

\* escapeHtml: a value that is not a string is returned as it is.
escapeHtml(text) == IF text.k # "string" THEN text ELSE JStr(EscapeChars(text.s))

(* ---------------- property access used by the extractors -------------- *)
\* a === b for primitive values (ids, type names).
StrictEq(a, b) == a.k \notin {"object", "array"} /\ a = b

\* v?.key
OptGet(v, key) == IF v.k \in {"null", "undefined"} THEN JUndef ELSE Get(v, key)

\* Array.prototype.find over the elements of an array.
Find(items, P(_)) ==
  IF \E i \in 1..Len(items) : P(items[i])
  THEN items[CHOOSE i \in 1..Len(items) :
               P(items[i]) /\ \A j \in 1..(i - 1) : ~P(items[j])]
  ELSE JUndef

UpperCase == <<"A","B","C","D","E","F","G","H","I","J","K","L","M",
               "N","O","P","Q","R","S","T","U","V","W","X","Y","Z">>
LowerCase == <<"a","b","c","d","e","f","g","h","i","j","k","l","m",
               "n","o","p","q","r","s","t","u","v","w","x","y","z">>

\* String.prototype.toLowerCase
ToLowerCase(str) ==
  [i \in 1..Len(str) |->
     IF \E j \in 1..26 : UpperCase[j] = str[i]
     THEN LowerCase[CHOOSE j \in 1..26 : UpperCase[j] = str[i]]
     ELSE str[i]]

\* courseResponse.included || []
IncludedItems(courseResponse) ==
  Items(Or(Get(courseResponse, "included"), JArr(<<>>)))

\* attributes.localizedMetadata && attributes.localizedMetadata[0]
\*   ? attributes.localizedMetadata[0] : fallback
LocalizedMetadata(attributes, fallback) ==
  LET lm == Get(attributes, "localizedMetadata")
  IN IF Truthy(lm) /\ Truthy(Get(lm, "0")) THEN Get(lm, "0") ELSE fallback

(* ------------------------------ extractSkills ------------------------- *)
SkillItems(courseResponse) ==
  IF Truthy(Get(courseResponse, "included"))
  THEN SelectSeq(Items(Get(courseResponse, "included")),
                 LAMBDA item : StrictEq(Get(item, "type"), JStr(S_skill)))
  ELSE <<>>

\* item.attributes.name on a skill without attributes is a TypeError.
extractSkillsThrows(courseResponse) ==
  \E i \in 1..Len(SkillItems(courseResponse)) :
     Get(SkillItems(courseResponse)[i], "attributes").k \in {"null", "undefined"}

extractSkills(courseResponse) ==
  [i \in 1..Len(SkillItems(courseResponse)) |->
     Get(Get(SkillItems(courseResponse)[i], "attributes"), "name")]

(* --------------------------- extractCoreModules ----------------------- *)
\* The instance whose resources are listed: the first of
\* relationships.instances.data, looked up in included.
FirstInstanceData(courseResponse) ==
  LET courseData == Get(courseResponse, "data")
      rels == Get(courseData, "relationships")
  IN IF Truthy(rels) /\ Truthy(Get(rels, "instances"))
        /\ Truthy(Get(Get(rels, "instances"), "data"))
     THEN LET instanceId == OptGet(Get(Get(Get(rels, "instances"), "data"), "0"), "id")
          IN Find(IncludedItems(courseResponse),
                  LAMBDA item : StrictEq(Get(item, "id"), instanceId)
                       /\ StrictEq(Get(item, "type"), JStr(S_learningObjectInstance)))
     ELSE JUndef

HasLoResources(instanceData) ==
  Truthy(instanceData) /\ Truthy(Get(instanceData, "relationships"))
  /\ Truthy(Get(Get(instanceData, "relationships"), "loResources"))

\* instanceData.relationships.loResources.data
InstanceResources(instanceData) ==
  Get(Get(Get(instanceData, "relationships"), "loResources"), "data")

ResourceData(courseResponse, resource) ==
  Find(IncludedItems(courseResponse),
       LAMBDA item : StrictEq(Get(item, "id"), Get(resource, "id")))

\* A resource gives a module when it is found in included with attributes.
IsModule(courseResponse, resource) ==
  Truthy(ResourceData(courseResponse, resource))
  /\ Truthy(Get(ResourceData(courseResponse, resource), "attributes"))

ModuleType(attributes) == Or(Get(attributes, "loFormat"), JStr(S_SelfPaced))

\* resources.forEach on a value that is no array, and toLowerCase on a
\* loFormat that is no string, are TypeErrors.
extractCoreModulesThrows(courseResponse) ==
  LET instanceData == FirstInstanceData(courseResponse)
  IN /\ HasLoResources(instanceData)
     /\ \/ InstanceResources(instanceData).k # "array"
        \/ \E i \in 1..Len(InstanceResources(instanceData).kids) :
             LET resource == Items(InstanceResources(instanceData))[i]
             IN /\ IsModule(courseResponse, resource)
                /\ ModuleType(Get(ResourceData(courseResponse, resource),
                                  "attributes")).k # "string"

\* One module; isCompleted is the outcome of Math.random() > 0.5.
CoreModule(courseResponse, resource, isCompleted) ==
  LET courseData == Get(courseResponse, "data")
      attributes == Get(ResourceData(courseResponse, resource), "attributes")
      resourceMetadata ==
        LocalizedMetadata(attributes,
          JObj(<< <<"name", Or(Get(attributes, "name"), JStr(S_Module))>> >>))
      moduleType == ModuleType(attributes)
      moduleDuration ==
        IF ToLowerCase(moduleType.s) = S_selfpaced THEN S_SelfPaced
        ELSE formatDuration(Or(Or(Get(attributes, "desiredDuration"),
                                  Get(attributes, "duration")), JNum(900)))
  IN [id |-> Get(resource, "id"),
      courseId |-> Get(courseData, "id"),
      name |-> Get(resourceMetadata, "name"),
      type |-> moduleType,
      contentType |-> Or(Get(attributes, "contentType"), JStr(S_SCORM2004)),
      duration |-> JStr(moduleDuration),
      status |-> JStr(IF isCompleted THEN S_completed ELSE S_inprogress),
      isCompleted |-> isCompleted,
      statusText |-> JStr(IF isCompleted THEN S_LastVisited ELSE S_InProgress),
      statusIcon |-> JStr(IF isCompleted THEN <<"U+2713">>
                          ELSE <<"U+23F1", "U+FE0F">>)]

\* The indexes of the resources that give a module.
ModuleIndexes(courseResponse) ==
  LET instanceData == FirstInstanceData(courseResponse)
  IN IF HasLoResources(instanceData) /\ InstanceResources(instanceData).k = "array"
     THEN SelectSeq([i \in 1..Len(InstanceResources(instanceData).kids) |-> i],
                    LAMBDA i : IsModule(courseResponse,
                                        Items(InstanceResources(instanceData))[i]))
     ELSE <<>>

\* extractCoreModules; random[j] is the j-th outcome of Math.random() > 0.5.
extractCoreModules(courseResponse, random) ==
  LET idx == ModuleIndexes(courseResponse)
      resources == Items(InstanceResources(FirstInstanceData(courseResponse)))
  IN [j \in 1..Len(idx) |-> CoreModule(courseResponse, resources[idx[j]], random[j])]

(* -------------------------- extractPrerequisites ---------------------- *)
RelationshipRefs(courseResponse, name) ==
  LET rels == Get(Get(courseResponse, "data"), "relationships")
  IN IF Truthy(rels) /\ Truthy(Get(rels, name)) /\ Truthy(Get(Get(rels, name), "data"))
     THEN Items(Get(Get(rels, name), "data"))
     ELSE <<>>

HasAttributes(courseResponse, ref) ==
  Truthy(ResourceData(courseResponse, ref))
  /\ Truthy(Get(ResourceData(courseResponse, ref), "attributes"))

extractPrerequisites(courseResponse) ==
  LET found == SelectSeq(RelationshipRefs(courseResponse, "prerequisiteLOs"),
                         LAMBDA prereq : HasAttributes(courseResponse, prereq))
  IN [i \in 1..Len(found) |->
        LET attributes == Get(ResourceData(courseResponse, found[i]), "attributes")
            prereqMetadata ==
              LocalizedMetadata(attributes,
                JObj(<< <<"name", Or(Get(attributes, "name"),
                                     JStr(S_PrerequisiteCourse))>> >>))
        IN [id |-> Get(found[i], "id"),
            name |-> Get(prereqMetadata, "name"),
            type |-> Or(Get(attributes, "loFormat"), JStr(S_SelfPaced))]]

(* ----------------------------- extractJobAids ------------------------- *)
extractJobAids(courseResponse) ==
  LET jobAidItems ==
        SelectSeq(RelationshipRefs(courseResponse, "supplementaryLOs"),
                  LAMBDA item : HasAttributes(courseResponse, item)
                       /\ StrictEq(Get(Get(ResourceData(courseResponse, item),
                                           "attributes"), "loType"),
                                   JStr(S_jobAid)))
  IN [i \in 1..Len(jobAidItems) |->
        LET attributes == Get(ResourceData(courseResponse, jobAidItems[i]), "attributes")
            jobAidMetadata ==
              LocalizedMetadata(attributes,
                JObj(<< <<"name", Or(Get(attributes, "name"), JStr(S_JobAid))>>,
                        <<"description", JStr(<<>>)>> >>))
        IN [id |-> Get(jobAidItems[i], "id"),
            name |-> Get(jobAidMetadata, "name"),
            description |-> Or(Get(jobAidMetadata, "description"),
                               JStr(S_JobAidDescription))]]

(* --------------------------- processCourseData ------------------------ *)
\* new Date().toISOString() at a clock reading of now milliseconds
\* (now < 10).
toISOString(now) == S_IsoPrefix \o <<Digits[now + 1], "Z">>

\* skillArray.join(', '): null and undefined elements join as ''.
JoinValues(values, sep) ==
  Join([i \in 1..Len(values) |->
          IF values[i].k \in {"null", "undefined"} THEN <<>>
          ELSE JToString(values[i])], sep)

\* courseData.type of undefined or null, and the TypeErrors of the extractors.
processCourseDataThrows(courseResponse) ==
  \/ Get(courseResponse, "data").k \in {"null", "undefined"}
  \/ extractSkillsThrows(courseResponse)
  \/ extractCoreModulesThrows(courseResponse)

CourseLevel(courseResponse, skillArray) ==
  LET courseLevel == safeGet(Get(courseResponse, "data"),
                             <<"attributes", "skillLevel">>, JStr(S_NA))
      firstSkill == Find(Items(Get(courseResponse, "included")),
                         LAMBDA item : StrictEq(Get(item, "type"), JStr(S_skillLevel)))
  IN IF StrictEq(courseLevel, JStr(S_NA)) /\ Len(skillArray) > 0 /\ Truthy(firstSkill)
     THEN Or(OptGet(Get(firstSkill, "attributes"), "name"), JStr(S_NA))
     ELSE courseLevel

processCourseData(courseResponse, courseId, instanceId, random, now) ==
  LET courseData == Get(courseResponse, "data")
      courseDescription ==
        safeGet(courseData, <<"attributes", "localizedMetadata", "0", "description">>,
                JStr(S_NoDescription))
      courseOverview ==
        safeGet(courseData, <<"attributes", "localizedMetadata", "0", "overview">>,
                JStr(S_NoOverview))
      durationSeconds == safeGet(courseData, <<"attributes", "duration">>, JNum(0))
      skillArray == extractSkills(courseResponse)
  IN [courseId |-> courseId,
      instanceId |-> instanceId,
      courseTitle |->
        safeGet(courseData, <<"attributes", "localizedMetadata", "0", "name">>,
                JStr(S_UntitledCourse)),
      courseDescription |-> Or(courseDescription, JStr(S_NoDescription)),
      courseOverview |-> Or(courseOverview, JStr(S_NoOverview)),
      courseType |-> JStr(IF StrictEq(Get(courseData, "type"), JStr(S_learningProgram))
                          THEN S_LearningProgram ELSE S_Course),
      courseDuration |-> JStr(formatDuration(durationSeconds)),
      courseLevel |-> CourseLevel(courseResponse, skillArray),
      courseSkills |-> Or(JStr(JoinValues(skillArray, <<",", " ">>)), JStr(S_NoSkills)),
      enrollmentCount |-> safeGet(courseData, <<"attributes", "enrollmentCount">>, JNum(0)),
      ratingAvg |-> safeGet(courseData, <<"attributes", "rating", "averageRating">>, JNum(0)),
      ratingCount |-> safeGet(courseData, <<"attributes", "rating", "ratingsCount">>, JNum(0)),
      imageUrl |-> safeGet(courseData, <<"attributes", "imageUrl">>, JStr(<<>>)),
      loFormat |-> safeGet(courseData, <<"attributes", "loFormat">>, JStr(S_SelfPaced)),
      coreModules |-> extractCoreModules(courseResponse, random),
      prerequisites |-> extractPrerequisites(courseResponse),
      jobAids |-> extractJobAids(courseResponse),
      timestamp |-> JStr(toISOString(now))]

(* --------------------------- generateCourseHTML ----------------------- *)
\* The returned HTML is the sequence of its interpolations, in the order of
\* the template: slot names the place, raw is the record value and text the
\* characters the template literal puts there.  The literal text between two
\* interpolations is fixed and is not represented.
Chunk(slot, raw, placed) == [slot |-> slot, raw |-> raw, text |-> JToString(placed)]

\* ${escapeHtml(value)}
Escaped(slot, value) == Chunk(slot, value, escapeHtml(value))

\* ${value}
Plain(slot, value) == Chunk(slot, value, value)

RECURSIVE Flatten(_)
Flatten(seqs) == IF seqs = <<>> THEN <<>> ELSE seqs[1] \o Flatten(Tail(seqs))

PrerequisitesHTML(courseData) ==
  Flatten([i \in 1..Len(courseData.prerequisites) |->
    << Escaped("prerequisite-type", courseData.prerequisites[i].type),
       Escaped("prerequisite-link", courseData.prerequisites[i].name) >>])

ModulesHTML(courseData) ==
  << Escaped("duration-badge", courseData.courseDuration) >>
  \o Flatten([i \in 1..Len(courseData.coreModules) |->
       LET module == courseData.coreModules[i]
       IN << Plain("module-item-class", module.status),
             Escaped("data-resource-id", module.id),
             Escaped("data-course-id", courseData.courseId),
             Escaped("module-type", module.type),
             Escaped("module-content-type", module.contentType),
             Escaped("module-link", module.name),
             Escaped("module-duration", module.duration),
             Plain("module-status-icon", module.statusIcon),
             Escaped("module-status", module.statusText) >>])

JobAidsHTML(courseData) ==
  Flatten([i \in 1..Len(courseData.jobAids) |->
    << Escaped("job-aid-link", courseData.jobAids[i].name),
       Escaped("job-aid-description", courseData.jobAids[i].description) >>])

\* courseData.coreModules.filter(m => m.isCompleted).length
CoreContentCompleted(courseData) ==
  Len(SelectSeq(courseData.coreModules, LAMBDA m : m.isCompleted))

generateCourseHTML(courseData) ==
  LET imageUrl == Or(courseData.imageUrl, JStr(S_DefaultImage))
  IN << Escaped("title", courseData.courseTitle),
        Escaped("meta-description", courseData.courseDescription),
        Plain("meta-timestamp", courseData.timestamp),
        Escaped("meta-course-id", courseData.courseId),
        Escaped("meta-course-title", courseData.courseTitle),
        Escaped("meta-course-duration", courseData.courseDuration),
        Escaped("meta-course-skill-level", courseData.courseLevel),
        Escaped("meta-course-skills", courseData.courseSkills),
        Escaped("meta-course-type", courseData.courseType),
        Plain("meta-course-rating", courseData.ratingAvg),
        Plain("meta-course-enrollment-count", courseData.enrollmentCount),
        Escaped("og-title", courseData.courseTitle),
        Escaped("og-description", courseData.courseDescription),
        Escaped("og-image", imageUrl),
        Escaped("course-title", courseData.courseTitle),
        Escaped("course-format", courseData.loFormat) >>
     \o PrerequisitesHTML(courseData)
     \o ModulesHTML(courseData)
     \o << Plain("progress-completed", JNum(CoreContentCompleted(courseData))),
           Plain("progress-total", JNum(Len(courseData.coreModules))) >>
     \o JobAidsHTML(courseData)

(* ------------------------ JSON:API documents -------------------------- *)
\* The number of resources of the first instance of a document with modules.
MaxResources == 2
\* The clock readings new Date() can give are 0..MaxClock.
MaxClock == 1

Id(prefix, i) == JStr(<<prefix, Digits[i + 1]>>)

\* The scalar attributes of data.attributes, by profile.
ScalarAttributes(profile) ==
  CASE profile = "absent" -> <<>>
    [] profile = "normal" ->
         << <<"duration", JNum(5400)>>,
            <<"skillLevel", JStr(<<"B","e","g","i","n","n","e","r">>)>>,
            <<"enrollmentCount", JNum(12)>>,
            <<"rating", JObj(<< <<"averageRating", JNum(4)>>,
                                <<"ratingsCount", JNum(7)>> >>)>>,
            <<"imageUrl", JStr(<<"/","i",".","p","n","g">>)>>,
            <<"loFormat", JStr(<<"B","l","e","n","d","e","d">>)>> >>
    [] profile = "null" ->
         << <<"duration", JNull>>, <<"skillLevel", JNull>>,
            <<"enrollmentCount", JNull>>, <<"rating", JNull>>,
            <<"imageUrl", JNull>>, <<"loFormat", JNull>> >>
    [] profile = "markup" ->
         << <<"duration", JNum(90)>>,
            <<"skillLevel", JStr(<<"<","1",">">>)>>,
            <<"enrollmentCount", JStr(<<"<","b",">">>)>>,
            <<"rating", JObj(<< <<"averageRating", JStr(<<"\"",">","<">>)>>,
                                <<"ratingsCount", JNum(0)>> >>)>>,
            <<"imageUrl", JStr(<<"\"","o","n","e","r","r","o","r","=">>)>>,
            <<"loFormat", JStr(<<"A","&","B">>)>> >>
ScalarProfiles == {"absent", "normal", "null", "markup"}

\* data.attributes.localizedMetadata, by shape.
Metadata(shape, title, description, overview) ==
  CASE shape = "noMetadata" -> <<>>
    [] shape = "emptyMetadata" -> << <<"localizedMetadata", JArr(<<>>)>> >>
    [] shape = "nullMetadata" -> << <<"localizedMetadata", JNull>> >>
    [] OTHER ->
         << <<"localizedMetadata",
              JArr(<<JObj(<< <<"name", title>>, <<"description", description>>,
                             <<"overview", overview>> >>)>>)>> >>

TitleValues == {JUndef, JNull, JStr(<<"I","n","t","r","o">>),
                JStr(<<"<","A","&","B",">">>), JArr(<<JStr(<<"<","i",">">>)>>)}
DescriptionValues == {JUndef, JNull, JStr(<<>>), JStr(<<"I","t","'","s">>)}
OverviewValues == {JUndef, JStr(<<"O">>)}

\* The included resource j of the first instance: odd ones carry localized
\* metadata and no loFormat, even ones a plain name, a loFormat and a duration.
ResourceItem(j) ==
  JObj(<< <<"id", Id("r", j)>>, <<"type", JStr(<<"r","e","s">>)>>,
          <<"attributes",
            IF j % 2 = 1
            THEN JObj(<< <<"localizedMetadata",
                           JArr(<<JObj(<< <<"name", JStr(<<"M", Digits[j + 1]>>)>> >>)>>)>> >>)
            ELSE JObj(<< <<"name", JStr(<<"M", "<", Digits[j + 1]>>)>>,
                         <<"loFormat", JStr(<<"C","l","a","s","s">>)>>,
                         <<"duration", JNum(5400)>> >>)>> >>)

InstanceItem(id, resources) ==
  JObj(<< <<"id", id>>, <<"type", JStr(S_learningObjectInstance)>>,
          <<"relationships",
            JObj(<< <<"loResources", JObj(<< <<"data", resources>> >>)>> >>)>> >>)

Ref(id) == JObj(<< <<"id", id>> >>)

SkillItem(name) ==
  JObj(<< <<"id", Id("s", 0)>>, <<"type", JStr(S_skill)>>,
          <<"attributes", JObj(<< <<"name", name>> >>)>> >>)

\* relationships and included, by structure.
Relationships(struct) ==
  CASE struct \in {"modules", "badResources"} ->
         << <<"relationships",
              JObj(<< <<"instances", JObj(<< <<"data", JArr(<<Ref(Id("i", 1))>>)>> >>)>> >>)>> >>
    [] struct = "refs" ->
         << <<"relationships",
              JObj(<< <<"prerequisiteLOs",
                        JObj(<< <<"data", JArr(<<Ref(Id("p", 1)), Ref(Id("p", 9))>>)>> >>)>>,
                      <<"supplementaryLOs",
                        JObj(<< <<"data", JArr(<<Ref(Id("j", 1)), Ref(Id("p", 1))>>)>> >>)>> >>)>> >>
    [] OTHER -> <<>>

Included(struct) ==
  CASE struct = "skills" ->
         << <<"included",
              JArr(<< SkillItem(JStr(<<"J","S">>)), SkillItem(JStr(<<"<","x",">">>)),
                      JObj(<< <<"id", Id("l", 1)>>, <<"type", JStr(S_skillLevel)>>,
                              <<"attributes", JObj(<< <<"name", JStr(<<"P","r","o">>)>> >>)>> >>) >>)>> >>
    [] struct = "skillNoAttributes" ->
         << <<"included",
              JArr(<< JObj(<< <<"id", Id("s", 0)>>, <<"type", JStr(S_skill)>> >>) >>)>> >>
    [] struct = "modules" ->
         << <<"included",
              JArr(<< InstanceItem(Id("i", 1),
                                   JArr([j \in 1..MaxResources |-> Ref(Id("r", j))])) >>
                   \o [j \in 1..MaxResources |-> ResourceItem(j)])>> >>
    [] struct = "badResources" ->
         << <<"included", JArr(<< InstanceItem(Id("i", 1), JUndef) >>)>> >>
    [] struct = "refs" ->
         << <<"included",
              JArr(<< JObj(<< <<"id", Id("p", 1)>>,
                              <<"attributes",
                                JObj(<< <<"localizedMetadata",
                                          JArr(<<JObj(<< <<"name", JStr(<<"P","r","e">>)>> >>)>>)>>,
                                        <<"loType", JStr(<<"c","o","u","r","s","e">>)>> >>)>> >>),
                      JObj(<< <<"id", Id("j", 1)>>,
                              <<"attributes",
                                JObj(<< <<"name", JStr(<<"A","i","d","\"">>)>>,
                                        <<"loType", JStr(S_jobAid)>> >>)>> >>) >>)>> >>
    [] OTHER -> <<>>
Structures == {"bare", "skills", "modules", "refs"}
ThrowingStructures == {"skillNoAttributes", "badResources"}

\* A document with a data object.
Document(type, shape, title, description, overview, profile, struct) ==
  JObj(<< <<"data",
            JObj(<< <<"id", JStr(<<"c",":","1">>)>>, <<"type", JStr(type)>> >>
                 \o (IF shape = "noAttributes" THEN <<>>
                     ELSE << <<"attributes",
                               JObj(Metadata(shape, title, description, overview)
                                    \o ScalarAttributes(profile))>> >>)
                 \o Relationships(struct))>> >>
       \o Included(struct))

\* Documents without a data object.
NoDataDocuments == {JObj(<<>>), JObj(<< <<"data", JNull>> >>)}

PlainTitle == JStr(<<"I","n","t","r","o">>)

\* The documents the helpers are applied to.
HelperDocuments ==
  {Document(S_Course, "full", t, d, o, p, "bare") :
     t \in TitleValues, d \in DescriptionValues, o \in OverviewValues,
     p \in ScalarProfiles}
  \cup {Document(S_learningProgram, sh, PlainTitle, JUndef, JUndef, p, "bare") :
          sh \in {"noAttributes", "noMetadata", "emptyMetadata", "nullMetadata"},
          p \in ScalarProfiles}
  \cup {Document(S_Course, "full", PlainTitle, JUndef, JUndef, p, st) :
          p \in {"absent", "markup"}, st \in Structures \cup ThrowingStructures}
  \cup NoDataDocuments

\* The course and instance ids processCourseData is given.
HelperIds == {<<JStr(<<"7">>), JNull>>, <<JStr(<<"a","<","b">>), JStr(<<"7","-","1">>)>>}

(* ====================================================================== *)
(* The helpers applied twice to one document: processCourseData followed  *)
(* by generateCourseHTML, then both again with the same arguments.        *)
(* ====================================================================== *)
VARIABLES
  hDoc,     \* the API document
  hIds,     \* <<courseId, instanceId>>
  hPc,      \* "process1", "render1", "process2", "render2", "done", "threw"
  hClock,   \* the clock new Date() reads
  hRecs,    \* the records processCourseData returned, in call order
  hHtmls    \* the documents generateCourseHTML returned, in call order

helperVars == <<hDoc, hIds, hPc, hClock, hRecs, hHtmls>>

HelperInit ==
  /\ hDoc \in HelperDocuments
  /\ hIds \in HelperIds
  /\ hPc = "process1"
  /\ hClock = 0
  /\ hRecs = <<>>
  /\ hHtmls = <<>>

\* The helpers are not in use.
HelperIdle ==
  /\ hDoc = JObj(<<>>)
  /\ hIds = <<JNull, JNull>>
  /\ hPc = "idle"
  /\ hClock = 0
  /\ hRecs = <<>>
  /\ hHtmls = <<>>

\* Time passes between two calls.
Tick ==
  /\ hPc \in {"process1", "process2"}
  /\ hClock < MaxClock
  /\ hClock' = hClock + 1
  /\ UNCHANGED <<hDoc, hIds, hPc, hRecs, hHtmls>>

\* processCourseData(hDoc, courseId, instanceId)
CallProcessCourseData ==
  /\ hPc \in {"process1", "process2"}
  /\ IF processCourseDataThrows(hDoc)
     THEN /\ hPc' = "threw"
          /\ UNCHANGED hRecs
     ELSE \E random \in [1..Len(ModuleIndexes(hDoc)) -> BOOLEAN] :
            /\ hRecs' = Append(hRecs, processCourseData(hDoc, hIds[1], hIds[2],
                                                        random, hClock))
            /\ hPc' = IF hPc = "process1" THEN "render1" ELSE "render2"
  /\ UNCHANGED <<hDoc, hIds, hClock, hHtmls>>

\* generateCourseHTML(record) on the record of the preceding call
CallGenerateCourseHTML ==
  /\ hPc \in {"render1", "render2"}
  /\ hHtmls' = Append(hHtmls, generateCourseHTML(hRecs[Len(hRecs)]))
  /\ hPc' = IF hPc = "render1" THEN "process2" ELSE "done"
  /\ UNCHANGED <<hDoc, hIds, hClock, hRecs>>

HelperNext == Tick \/ CallProcessCourseData \/ CallGenerateCourseHTML

(* ====================================================================== *)
(* scripts/alm-auth.js: the token store in sessionStorage and             *)
(* makeAuthenticatedRequest.                                              *)
(* ====================================================================== *)
S_oauth == <<"o","a","u","t","h"," ">>
S_NaN == <<"N","a","N">>
S_t0 == <<"t","0">>
S_r0 == <<"r","0">>
S_r1 == <<"r","1">>
S_abc == <<"a","b","c">>

\* const bufferTime = 5 * 60 * 1000
bufferTime == 5 * 60 * 1000

IsDigit(c) == \E i \in 1..10 : Digits[i] = c

\* The number of leading characters of str that are decimal digits.
RECURSIVE LeadingDigits(_)
LeadingDigits(str) == IF str # <<>> /\ IsDigit(str[1])
                      THEN 1 + LeadingDigits(Tail(str))
                      ELSE 0

\* The value of a string of decimal digits.
RECURSIVE DigitsValue(_)
DigitsValue(str) == IF str = <<>> THEN 0
                    ELSE 10 * DigitsValue(SubSeq(str, 1, Len(str) - 1))
                         + DigitIndex(str[Len(str)])

RECURSIVE TrimStart(_)
TrimStart(str) == IF str # <<>> /\ str[1] = " " THEN TrimStart(Tail(str)) ELSE str

\* parseInt(str): <<n>> for the integer the string starts with (after white
\* space and a sign), <<>> for NaN.
parseInt(str) ==
  LET trimmed == TrimStart(str)
      signed == trimmed # <<>> /\ trimmed[1] \in {"-", "+"}
      body == IF signed THEN Tail(trimmed) ELSE trimmed
      n == LeadingDigits(body)
  IN IF n = 0 THEN <<>>
     ELSE IF signed /\ trimmed[1] = "-" THEN <<0 - DigitsValue(SubSeq(body, 1, n))>>
     ELSE <<DigitsValue(SubSeq(body, 1, n))>>

\* sessionStorage with nothing stored; getItem of a missing key is null.
EmptyStorage ==
  [alm_access_token |-> JNull, alm_refresh_token |-> JNull,
   alm_token_expiry |-> JNull, auth_return_url |-> JNull]

\* isAuthenticated without the five minute buffer.
isAuthenticatedUnbuffered(storage, now) ==
  LET token == storage.alm_access_token
      expiry == storage.alm_token_expiry
  IN IF ~Truthy(token) \/ ~Truthy(expiry) THEN FALSE
     ELSE LET expiryTime == parseInt(expiry.s)
          IN expiryTime # <<>> /\ now < expiryTime[1]

\* isAuthenticated(), with sessionStorage and Date.now() as arguments
isAuthenticated(storage, now) ==
  LET token == storage.alm_access_token
      expiry == storage.alm_token_expiry
  IN IF ~Truthy(token) \/ ~Truthy(expiry) THEN FALSE
     ELSE LET expiryTime == parseInt(expiry.s)
          IN expiryTime # <<>> /\ now < expiryTime[1] - bufferTime

\* getAccessToken()
getAccessToken(storage, now) ==
  IF ~isAuthenticated(storage, now) THEN JNull ELSE storage.alm_access_token

\* Date.now() + (tokenData.expires_in * 1000), then toString()
ExpiryString(tokenData, now) ==
  LET expires == Get(tokenData, "expires_in")
  IN CASE expires.k = "number" -> NumToStr(now + expires.n * 1000)
       [] expires.k = "null" -> NumToStr(now)
       [] OTHER -> S_NaN

\* storeTokens(tokenData)
storeTokens(storage, tokenData, now) ==
  [storage EXCEPT
     !.alm_access_token = JStr(JToString(Get(tokenData, "access_token"))),
     !.alm_token_expiry = JStr(ExpiryString(tokenData, now)),
     !.alm_refresh_token =
        IF Truthy(Get(tokenData, "refresh_token"))
        THEN JStr(JToString(Get(tokenData, "refresh_token")))
        ELSE @]

(* ------------------------------- inputs ------------------------------- *)
\* The number of times the clock advances.
MaxTicks == 2

StoredTokens == {JNull, JStr(<<>>), JStr(S_t0)}
StoredExpiries ==
  {JNull, JStr(<<>>), JStr(S_abc), JStr(NumToStr(bufferTime)),
   JStr(NumToStr(bufferTime + 1)), JStr(NumToStr(bufferTime + 2) \o S_abc)}
StoredRefreshTokens == {JNull, JStr(S_r0)}

\* The token document the n-th refresh is answered with.
TokenData(n, expires, refresh) ==
  JObj(<< <<"access_token", JStr(<<"t", Digits[n + 1]>>)>>,
          <<"expires_in", expires>>,
          <<"refresh_token", refresh>> >>)

ExpiresIn == {JNum(300), JNum(301), JUndef}

\* What a refresh request is answered with: a token document, a status
\* that is not ok, or a network error.
TokenReplies(n) ==
  {[status |-> "ok", doc |-> TokenData(n, e, r)] :
      e \in ExpiresIn, r \in {JUndef, JStr(S_r1)}}
  \cup {[status |-> "notok", doc |-> JNull], [status |-> "error", doc |-> JNull]}

\* response.status of an API response; 0 stands for a network error.
ApiStatuses == {200, 401, 500, 0}

\* options.headers.Authorization of the caller, if any
OptionAuthorizations == {JUndef, JStr(<<"c","u","s","t","o","m">>)}

(* ------------------------------- state -------------------------------- *)
VARIABLES
  aStorage,    \* sessionStorage
  aNow,        \* Date.now()
  aTicks,      \* how often the clock advanced
  aPc,         \* where makeAuthenticatedRequest stands
  aOptions,    \* options.headers.Authorization of the call
  aRequests,   \* the requests issued by the call, in order
  aReplies,    \* response.status of the API responses received, in order
  aResult,     \* <<>>, or <<what the call's promise settled with>>
  aLocation,   \* "page", or "authorize" after login() set window.location
  aGot         \* <<>>, or <<the last call of getAccessToken>>

authVars == <<aStorage, aNow, aTicks, aPc, aOptions, aRequests, aReplies, aResult,
              aLocation, aGot>>

AuthStart ==
  /\ aNow = 0
  /\ aTicks = 0
  /\ aPc = "idle"
  /\ aOptions = JUndef
  /\ aRequests = <<>>
  /\ aReplies = <<>>
  /\ aResult = <<>>
  /\ aLocation = "page"
  /\ aGot = <<>>

AuthInit ==
  /\ \E token \in StoredTokens, expiry \in StoredExpiries,
        refresh \in StoredRefreshTokens :
       aStorage = [EmptyStorage EXCEPT !.alm_access_token = token,
                                       !.alm_token_expiry = expiry,
                                       !.alm_refresh_token = refresh]
  /\ AuthStart

\* The page does not load alm-auth.js.
AuthIdle == aStorage = EmptyStorage /\ AuthStart

\* fetch(url, requestOptions) of makeAuthenticatedRequest
ApiRequest(authorization) ==
  [kind |-> "api", authorization |-> authorization, refresh_token |-> JNull]

\* fetch(ALM_CONFIG.tokenUrl, ...) of refreshAccessToken
RefreshRequest(refreshToken) ==
  [kind |-> "token", authorization |-> JNull, refresh_token |-> refreshToken]

\* What the promise of a call settles with: a response (to the request of
\* the given index), undefined, or a rejection.
ApiResponse(status, request) == [kind |-> "response", status |-> status, request |-> request]
UndefinedResult == [kind |-> "undefined", status |-> 0, request |-> 0]
RejectedResult == [kind |-> "rejected", status |-> 0, request |-> 0]

\* 'Authorization': `oauth ${token}`, overridden by ...options.headers
FirstAuthorization(token, options) ==
  IF options.k = "undefined" THEN JStr(S_oauth \o JToString(token)) ELSE options

ApiRequestsOf(reqs) == SelectSeq(reqs, LAMBDA r : r.kind = "api")

(* ------------------------------- actions ------------------------------ *)
\* Time passes.
AuthTick ==
  /\ aTicks < MaxTicks
  /\ aTicks' = aTicks + 1
  /\ \E d \in {1, bufferTime} : aNow' = aNow + d
  /\ UNCHANGED <<aStorage, aPc, aOptions, aRequests, aReplies, aResult, aLocation, aGot>>

\* getAccessToken() called by the page
CallGetAccessToken ==
  /\ aPc \in {"idle", "done"}
  /\ aGot' = <<[storage |-> aStorage, now |-> aNow,
               result |-> getAccessToken(aStorage, aNow)]>>
  /\ aGot' # aGot
  /\ UNCHANGED <<aStorage, aNow, aTicks, aPc, aOptions, aRequests, aReplies, aResult, aLocation>>

\* The catch blocks of makeAuthenticatedRequest: remember the page, login().
RedirectToLogin ==
  /\ aStorage' = [aStorage EXCEPT !.auth_return_url = JStr(<<"/">>)]
  /\ aLocation' = "authorize"
  /\ aResult' = <<UndefinedResult>>
  /\ aPc' = "done"
  /\ UNCHANGED aRequests

\* refreshAccessToken() up to its await: throws without a refresh token.
StartRefresh(next) ==
  IF ~Truthy(aStorage.alm_refresh_token)
  THEN RedirectToLogin
  ELSE /\ aRequests' = Append(aRequests, RefreshRequest(aStorage.alm_refresh_token))
       /\ aPc' = next
       /\ UNCHANGED <<aStorage, aResult, aLocation>>

\* makeAuthenticatedRequest(endpoint, options) up to its first await
CallMakeAuthenticatedRequest ==
  /\ aPc = "idle"
  /\ \E authorization \in OptionAuthorizations :
       /\ aOptions' = authorization
       /\ LET token == getAccessToken(aStorage, aNow)
          IN IF ~Truthy(token)
             THEN StartRefresh("refresh1")
             ELSE /\ aRequests' = Append(aRequests,
                                         ApiRequest(FirstAuthorization(token, authorization)))
                  /\ aPc' = "request1"
                  /\ UNCHANGED <<aStorage, aResult, aLocation>>
  /\ UNCHANGED <<aNow, aTicks, aReplies, aGot>>

\* lines 254-276: the answer to the refresh made before the first request
ReceiveFirstRefresh ==
  /\ aPc = "refresh1"
  /\ \E reply \in TokenReplies(1) :
       IF reply.status = "ok"
       THEN /\ aStorage' = storeTokens(aStorage, reply.doc, aNow)
            /\ aRequests' = Append(aRequests,
                 ApiRequest(FirstAuthorization(Get(reply.doc, "access_token"), aOptions)))
            /\ aPc' = "request1"
            /\ UNCHANGED <<aResult, aLocation>>
       ELSE RedirectToLogin
  /\ UNCHANGED <<aNow, aTicks, aOptions, aReplies, aGot>>

\* lines 276-295: the answer to the first API request
ReceiveFirstResponse ==
  /\ aPc = "request1"
  /\ \E status \in ApiStatuses :
       /\ aReplies' = Append(aReplies, status)
       /\ CASE status = 0 ->
                 /\ aResult' = <<RejectedResult>>
                 /\ aPc' = "done"
                 /\ UNCHANGED <<aStorage, aRequests, aLocation>>
            [] status = 401 -> StartRefresh("refresh2")
            [] OTHER ->
                 /\ aResult' = <<ApiResponse(status, Len(aRequests))>>
                 /\ aPc' = "done"
                 /\ UNCHANGED <<aStorage, aRequests, aLocation>>
  /\ UNCHANGED <<aNow, aTicks, aOptions, aGot>>

\* lines 281-292: the answer to the refresh made after a 401
ReceiveSecondRefresh ==
  /\ aPc = "refresh2"
  /\ \E reply \in TokenReplies(2) :
       IF reply.status = "ok"
       THEN /\ aStorage' = storeTokens(aStorage, reply.doc, aNow)
            /\ aRequests' = Append(aRequests,
                 ApiRequest(JStr(S_oauth \o JToString(Get(reply.doc, "access_token")))))
            /\ aPc' = "request2"
            /\ UNCHANGED <<aResult, aLocation>>
       ELSE RedirectToLogin
  /\ UNCHANGED <<aNow, aTicks, aOptions, aReplies, aGot>>

\* ReceiveSecondResponse refreshing and re-sending again after another 401.
ReceiveSecondResponseLooping ==
  /\ aPc = "request2"
  /\ \E status \in ApiStatuses :
       /\ aReplies' = Append(aReplies, status)
       /\ IF status = 401 /\ Len(aReplies) < 3
          THEN /\ aRequests' = Append(aRequests, aRequests[Len(aRequests)])
               /\ UNCHANGED <<aResult, aPc>>
          ELSE /\ aResult' = IF status = 0 THEN <<RejectedResult>>
                             ELSE <<ApiResponse(status, Len(aRequests))>>
               /\ aPc' = "done"
               /\ UNCHANGED aRequests
  /\ UNCHANGED <<aStorage, aNow, aTicks, aOptions, aLocation, aGot>>

\* line 286: the promise of the second fetch is what the call returns
ReceiveSecondResponse ==
  /\ aPc = "request2"
  /\ \E status \in ApiStatuses :
       /\ aReplies' = Append(aReplies, status)
       /\ aResult' = IF status = 0 THEN <<RejectedResult>>
                      ELSE <<ApiResponse(status, Len(aRequests))>>
  /\ aPc' = "done"
  /\ UNCHANGED <<aStorage, aNow, aTicks, aOptions, aRequests, aLocation, aGot>>

AuthNext ==
  \/ AuthTick
  \/ CallGetAccessToken
  \/ CallMakeAuthenticatedRequest
  \/ ReceiveFirstRefresh
  \/ ReceiveFirstResponse
  \/ ReceiveSecondRefresh
  \/ ReceiveSecondResponse

(* ------------------------ alm-auth.js: handleCallback ------------------ *)
\* How often the clock advances while handleCallback awaits.
MaxCallbackTicks == 2

S_loginError == <<"/","l","o","g","i","n","?","e","r","r","o","r","=",
                  "a","u","t","h","_","f","a","i","l","e","d">>
S_callbackPage == <<"/","a","u","t","h","/","c","a","l","l","b","a","c","k">>

\* sessionStorage.getItem('auth_return_url') when the callback page loads
StoredReturnUrls == {JNull, JStr(<<>>), JStr(<<"/","c">>)}

\* What the token endpoint answers the code exchange with: a token document,
\* a body that is JSON null, a status that is not ok, or a network error.
ExchangeReplies ==
  {[status |-> "ok", doc |-> TokenData(1, e, JUndef)] : e \in ExpiresIn}
  \cup {[status |-> "ok", doc |-> JNull],
        [status |-> "notok", doc |-> JNull], [status |-> "error", doc |-> JNull]}

\* What /user answers with.
UserReplies == {"ok", "notok", "unparsable", "error"}

VARIABLES
  cStorage,   \* sessionStorage of the callback page
  cUserInfo,  \* sessionStorage item alm_user_info is set
  cReturnUrl, \* the auth_return_url stored when the page loaded
  cNow,       \* Date.now()
  cTicks,     \* how often the clock advanced
  cPc,        \* "idle", "exchanging", "fetchingUser", "done"
  cSteps,     \* what handleCallback has done, in order
  cReplies,   \* the kinds of the replies received, in order
  cLocation   \* window.location.href

callbackVars == <<cStorage, cUserInfo, cReturnUrl, cNow, cTicks, cPc, cSteps,
                  cReplies, cLocation>>

CallbackStart ==
  /\ cUserInfo = FALSE
  /\ cReturnUrl = cStorage.auth_return_url
  /\ cNow = 0
  /\ cTicks = 0
  /\ cPc = "idle"
  /\ cSteps = <<>>
  /\ cReplies = <<>>
  /\ cLocation = S_callbackPage

CallbackInit ==
  /\ \E token \in {JNull, JStr(S_t0)}, url \in StoredReturnUrls :
       cStorage = [EmptyStorage EXCEPT
                     !.alm_access_token = token,
                     !.alm_token_expiry =
                        IF token = JNull THEN JNull
                        ELSE JStr(NumToStr(bufferTime + MaxCallbackTicks + 1)),
                     !.auth_return_url = url]
  /\ CallbackStart

\* The page is no OAuth callback.
CallbackIdle == cStorage = EmptyStorage /\ CallbackStart

\* Time passes while a request is under way.
CallbackTick ==
  /\ cPc \in {"exchanging", "fetchingUser"}
  /\ cTicks < MaxCallbackTicks
  /\ cTicks' = cTicks + 1
  /\ cNow' = cNow + 1
  /\ UNCHANGED <<cStorage, cUserInfo, cReturnUrl, cPc, cSteps, cReplies, cLocation>>

\* initAuth, lines 303-310, and handleCallback up to the fetch of
\* exchangeCodeForToken
CallHandleCallback ==
  /\ cPc = "idle"
  /\ cPc' = "exchanging"
  /\ cSteps' = Append(cSteps, "exchangeRequest")
  /\ UNCHANGED <<cStorage, cUserInfo, cReturnUrl, cNow, cTicks, cReplies, cLocation>>

\* The catch block of handleCallback, lines 189-193
AuthenticationFailed ==
  /\ cLocation' = S_loginError
  /\ cPc' = "done"

\* ReceiveExchangeReply navigating to the return URL as soon as the tokens
\* are stored, without the user info.
ReceiveExchangeReplySkippingUserInfo ==
  /\ cPc = "exchanging"
  /\ \E reply \in ExchangeReplies :
       /\ cReplies' = Append(cReplies, reply.status)
       /\ IF reply.status # "ok" \/ reply.doc.k = "null"
          THEN /\ AuthenticationFailed
               /\ UNCHANGED <<cStorage, cSteps>>
          ELSE /\ cStorage' = [storeTokens(cStorage, reply.doc, cNow)
                                 EXCEPT !.auth_return_url = JNull]
               /\ cSteps' = cSteps \o <<"storeTokens", "removeReturnUrl", "navigate">>
               /\ cLocation' = Or(cStorage.auth_return_url, JStr(<<"/">>)).s
               /\ cPc' = "done"
  /\ UNCHANGED <<cUserInfo, cReturnUrl, cNow, cTicks>>

\* exchangeCodeForToken returns or throws, lines 126-130; handleCallback
\* stores the tokens, line 179, and runs fetchUserInfo up to its fetch,
\* lines 201-212.
ReceiveExchangeReply ==
  /\ cPc = "exchanging"
  /\ \E reply \in ExchangeReplies :
       /\ cReplies' = Append(cReplies, reply.status)
       /\ IF reply.status # "ok" \/ reply.doc.k = "null"
          THEN /\ AuthenticationFailed
               /\ UNCHANGED <<cStorage, cSteps>>
          ELSE /\ cStorage' = storeTokens(cStorage, reply.doc, cNow)
               /\ IF ~Truthy(getAccessToken(cStorage', cNow))
                  THEN /\ AuthenticationFailed
                       /\ cSteps' = Append(cSteps, "storeTokens")
                  ELSE /\ cSteps' = cSteps \o <<"storeTokens", "userRequest">>
                       /\ cPc' = "fetchingUser"
                       /\ UNCHANGED cLocation
  /\ UNCHANGED <<cUserInfo, cReturnUrl, cNow, cTicks>>

\* fetchUserInfo returns or throws, lines 214-221; handleCallback reads and
\* removes auth_return_url and navigates, lines 185-187.
ReceiveUserInfo ==
  /\ cPc = "fetchingUser"
  /\ \E reply \in UserReplies :
       /\ cReplies' = Append(cReplies, reply)
       /\ IF reply = "ok"
          THEN /\ cUserInfo' = TRUE
               /\ cSteps' = cSteps \o <<"storeUserInfo", "removeReturnUrl", "navigate">>
               /\ cStorage' = [cStorage EXCEPT !.auth_return_url = JNull]
               /\ cLocation' = Or(cStorage.auth_return_url, JStr(<<"/">>)).s
               /\ cPc' = "done"
          ELSE /\ AuthenticationFailed
               /\ UNCHANGED <<cStorage, cUserInfo, cSteps>>
  /\ UNCHANGED <<cReturnUrl, cNow, cTicks>>

CallbackNext ==
  \/ CallbackTick
  \/ CallHandleCallback
  \/ ReceiveExchangeReply
  \/ ReceiveUserInfo

(* ====================================================================== *)
(* The page in the browser: its course-id meta tag, the course-info block *)
(* (blocks/course-info/course-info.js, and its earlier copy part_000) and *)
(* the course-overview block (blocks/course-overview/course-overview.js). *)
(* ====================================================================== *)
S_coursePath == <<"/","c","o","u","r","s","e","/">>
S_7 == <<"7">>
S_ModuleCourseId == <<"c","o","u","r","s","e",":","1","2","4","9","5","3","7","4">>

\* The number of module items the course-overview block holds.
MaxModuleItems == 1
\* The number of clicks on tab buttons.
MaxClicks == 3

\* <meta name="course-id">: no such tag, or its content
MetaCourseIds == {JUndef, JStr(<<>>), JStr(S_7)}

\* window.location.pathname
PagePaths == {<<"/">>, S_OverlayPrefix \o S_7, S_coursePath \o S_7}

\* document.querySelector('meta[name="course-id"]')?.content || ''
getCourseDataFromMeta(meta) == Or(OptGet(meta, "content"), JStr(<<>>))

\* The meta element as querySelector returns it: null, or an element with
\* its content.
MetaElement(content) ==
  IF content.k = "undefined" THEN JNull ELSE JObj(<< <<"content", content>> >>)

\* window.location.pathname.includes('/overview/trainingId/') ||
\* window.location.pathname.includes('/course/')
isCoursePage(pathname) == Includes(pathname, S_OverlayPrefix) \/ Includes(pathname, S_coursePath)

\* The tab buttons of createModulesSection and of the restructured block:
\* 'Modules' with class active, then 'Notes'.
SectionTabs == <<TRUE, FALSE>>

\* extractCourseDataFromHTML().courseId: the meta tag's content, or the
\* data-course-id of the first module item.
ExtractedCourseId(meta, moduleItems) ==
  Or(OptGet(MetaElement(meta), "content"),
     IF moduleItems > 0 THEN JStr(S_ModuleCourseId) ELSE JUndef)

(* ------------------------------- state -------------------------------- *)
VARIABLES
  pMeta,      \* the content of the course-id meta tag (undefined: no tag)
  pPath,      \* window.location.pathname
  iSource,    \* "course-info.js" or "part_000": which copy of the block runs
  iPc,        \* "loaded" before decorate ran, then "decorated"
  iContent,   \* what the course-info block shows
  iLoaded,    \* the block has class course-info-loaded
  iWindow,    \* window.handleEnrollClick and handleViewDetailsClick are set
  iTimer,     \* the retry timeout is pending
  iRuns,      \* one record for every run of decorate, in order
  oSource,    \* "markup": tabs delivered with the page; "restructure": built
  oModules,   \* the number of module items (or module buttons) of the block
  oPc,        \* "loaded" before decorate ran, then "decorated"
  oTabs,      \* for every tab button, whether it has class active
  oWired,     \* the tab buttons have their click listener
  oClicks,    \* the number of clicks so far
  oLast,      \* the tab button clicked last (0: none)
  kEnrolled,  \* the learner is enrolled in the course at ALM
  kHandlers,  \* one record for every call of handleModuleClick, in order
  kRequests,  \* the requests of checkEnrollmentStatus and enrollUser, in order
  kOverlays   \* the calls whose player overlay is in the document

pageVars == <<pMeta, pPath>>
infoVars == <<iSource, iPc, iContent, iLoaded, iWindow, iTimer, iRuns>>
overviewVars == <<oSource, oModules, oPc, oTabs, oWired, oClicks, oLast>>
playerVars == <<kEnrolled, kHandlers, kRequests, kOverlays>>
blockVars == <<pageVars, infoVars, overviewVars, playerVars>>

PlayerStart ==
  /\ kHandlers = <<>>
  /\ kRequests = <<>>
  /\ kOverlays = {}

\* No module is launched; the user is not enrolled.
PlayerIdle == kEnrolled = FALSE /\ PlayerStart

BlocksStart ==
  /\ iPc = "loaded"
  /\ iContent = "authored"
  /\ iLoaded = FALSE
  /\ iWindow = FALSE
  /\ iTimer = FALSE
  /\ iRuns = <<>>
  /\ oPc = "loaded"
  /\ oTabs = (IF oSource = "markup" THEN SectionTabs ELSE <<>>)
  /\ oWired = FALSE
  /\ oClicks = 0
  /\ oLast = 0

BlocksInit ==
  /\ pMeta \in MetaCourseIds
  /\ pPath \in PagePaths
  /\ iSource \in {"course-info.js", "part_000"}
  /\ oSource \in {"markup", "restructure"}
  /\ oModules \in 0..MaxModuleItems
  /\ BlocksStart
  /\ PlayerIdle

\* No page is open.
BlocksIdle ==
  /\ pMeta = JUndef
  /\ pPath = <<"/">>
  /\ iSource = "course-info.js"
  /\ oSource = "restructure"
  /\ oModules = 0
  /\ BlocksStart
  /\ PlayerIdle

(* ----------------------------- course-info ---------------------------- *)
\* DecorateInfoBlock with the window functions installed before the check
\* of the course id.
DecorateInfoBlockInstallingFirst(pending) ==
  LET courseId == getCourseDataFromMeta(MetaElement(pMeta))
      rendered == Truthy(courseId)
      loading == iSource = "course-info.js" /\ isCoursePage(pPath)
  IN /\ iContent' = IF rendered THEN "widget"
                    ELSE IF iSource = "part_000" THEN "error"
                    ELSE IF loading THEN "loading"
                    ELSE "placeholder"
     /\ iLoaded' = (iLoaded \/ rendered)
     /\ iWindow' = TRUE
     /\ iTimer' = (pending \/ (~rendered /\ loading))
     /\ iRuns' = Append(iRuns, [meta |-> pMeta, content |-> iContent',
                                addedClass |-> rendered, setWindow |-> TRUE])

\* The body of decorate(block) of the course-info block; pending tells
\* whether a retry timeout set earlier is still to fire.
DecorateInfoBlock(pending) ==
  LET courseId == getCourseDataFromMeta(MetaElement(pMeta))
      rendered == Truthy(courseId)
      loading == iSource = "course-info.js" /\ isCoursePage(pPath)
  IN /\ iContent' = IF rendered THEN "widget"
                    ELSE IF iSource = "part_000" THEN "error"
                    ELSE IF loading THEN "loading"
                    ELSE "placeholder"
     /\ iLoaded' = (iLoaded \/ rendered)
     /\ iWindow' = (iWindow \/ rendered)
     /\ iTimer' = (pending \/ (~rendered /\ loading))
     /\ iRuns' = Append(iRuns, [meta |-> pMeta, content |-> iContent',
                                addedClass |-> rendered, setWindow |-> rendered])

\* decorate(block), run for the block when the page loads
decorateCourseInfo ==
  /\ iPc = "loaded"
  /\ iPc' = "decorated"
  /\ DecorateInfoBlock(iTimer)
  /\ UNCHANGED <<iSource, pageVars, overviewVars>>

\* The callback of setTimeout, lines 129-134 of course-info.js
RetryCourseInfo ==
  /\ iTimer
  /\ IF Truthy(getCourseDataFromMeta(MetaElement(pMeta)))
     THEN DecorateInfoBlock(FALSE)
     ELSE /\ iTimer' = FALSE
          /\ UNCHANGED <<iContent, iLoaded, iWindow, iRuns>>
  /\ UNCHANGED <<iSource, iPc, pageVars, overviewVars>>

\* A script adds the course-id meta tag, or fills it, after the page loaded.
MetaInjected ==
  /\ ~Truthy(getCourseDataFromMeta(MetaElement(pMeta)))
  /\ pMeta' = JStr(S_7)
  /\ UNCHANGED <<pPath, infoVars, overviewVars>>

(* ---------------------------- course-overview ------------------------- *)
\* decorate(block) of the course-overview block: the restructuring copy
\* replaces the block's content, both copies return before attaching any
\* listener when no course id is found.
decorateCourseOverview ==
  /\ oPc = "loaded"
  /\ oPc' = "decorated"
  /\ oTabs' = SectionTabs
  /\ oWired' = Truthy(ExtractedCourseId(pMeta, oModules))
  /\ UNCHANGED <<oSource, oModules, oClicks, oLast, pageVars, infoVars>>

\* ClickTab with a listener that does not remove the class from the other
\* buttons.
ClickTabAdding ==
  /\ oPc = "decorated"
  /\ oClicks < MaxClicks
  /\ \E i \in 1..Len(oTabs) :
       /\ oLast' = i
       /\ oTabs' = IF oWired THEN [oTabs EXCEPT ![i] = TRUE] ELSE oTabs
  /\ oClicks' = oClicks + 1
  /\ UNCHANGED <<oSource, oModules, oPc, oWired, pageVars, infoVars>>

\* A click on tab button i, and its listener if there is one.
ClickTab ==
  /\ oPc = "decorated"
  /\ oClicks < MaxClicks
  /\ \E i \in 1..Len(oTabs) :
       /\ oLast' = i
       /\ oTabs' = IF oWired THEN [j \in 1..Len(oTabs) |-> j = i] ELSE oTabs
  /\ oClicks' = oClicks + 1
  /\ UNCHANGED <<oSource, oModules, oPc, oWired, pageVars, infoVars>>

BlocksNext ==
  \/ decorateCourseInfo
  \/ RetryCourseInfo
  \/ MetaInjected
  \/ decorateCourseOverview
  \/ ClickTab

(* ------------------- course-overview: launching a module -------------- *)
\* The most handleModuleClick calls of one page.
MaxHandlers == 2

\* What checkEnrollmentStatus learns: the document has enrollment data, it
\* has none, or the request failed (not ok, no JSON, network error).
StatusReplies == {"enrolled", "notEnrolled", "failed"}

\* What enrollUser learns: a document, a body that is JSON null, a status
\* that is not ok, or a network error.
EnrollOutcomes == {"document", "nullBody", "notok", "error"}

\* fetch of checkEnrollmentStatus (GET) and of enrollUser (POST)
LearningObjectRequest(method, handler) ==
  [method |-> method, handler |-> handler, courseId |-> S_ModuleCourseId]

\* handleModuleClick up to the fetch of checkEnrollmentStatus
StartHandler(via) ==
  /\ kHandlers' = Append(kHandlers,
                         [via |-> via, pc |-> "checking", isEnrolled |-> FALSE,
                          checkFailed |-> FALSE, posted |-> FALSE,
                          enrollmentResult |-> "none", opened |-> FALSE,
                          alerted |-> FALSE])
  /\ kRequests' = Append(kRequests, LearningObjectRequest("GET", Len(kHandlers) + 1))
  /\ UNCHANGED <<kEnrolled, kOverlays>>

\* The click listener of a module item, attached by decorate; the overlay of
\* an open player covers the page.
ClickModuleItem ==
  /\ oPc = "decorated" /\ oWired /\ oModules > 0
  /\ kOverlays = {}
  /\ Len(kHandlers) < MaxHandlers
  /\ StartHandler("module")
  /\ UNCHANGED <<pageVars, infoVars, overviewVars>>

\* The click listener of the Continue button: the first module that is not
\* completed, or the first module, is launched if there is one.
ClickContinue ==
  /\ oPc = "decorated" /\ oWired /\ oModules > 0
  /\ kOverlays = {}
  /\ Len(kHandlers) < MaxHandlers
  /\ StartHandler("continue")
  /\ UNCHANGED <<pageVars, infoVars, overviewVars>>

\* ReceiveEnrollmentStatus opening the player at once for a user who is not
\* enrolled, while the enrolment is still under way.
ReceiveEnrollmentStatusPlayingFirst ==
  /\ \E h \in 1..Len(kHandlers), status \in StatusReplies :
       /\ kHandlers[h].pc = "checking"
       /\ status = "enrolled" => kEnrolled
       /\ status = "notEnrolled" => ~kEnrolled
       /\ IF status = "enrolled"
          THEN /\ kHandlers' = [kHandlers EXCEPT ![h].pc = "done",
                                                 ![h].isEnrolled = TRUE,
                                                 ![h].opened = TRUE]
               /\ kOverlays' = kOverlays \cup {h}
               /\ UNCHANGED kRequests
          ELSE /\ kHandlers' = [kHandlers EXCEPT ![h].pc = "enrolling",
                                                 ![h].checkFailed = (status = "failed"),
                                                 ![h].posted = TRUE,
                                                 ![h].opened = TRUE]
               /\ kRequests' = Append(kRequests, LearningObjectRequest("POST", h))
               /\ kOverlays' = kOverlays \cup {h}
  /\ UNCHANGED <<kEnrolled, pageVars, infoVars, overviewVars>>

\* checkEnrollmentStatus returns, lines 30-46, and handleModuleClick goes on,
\* lines 152-181: the player for an enrolled user, the enrolment POST
\* otherwise.
ReceiveEnrollmentStatus ==
  /\ \E h \in 1..Len(kHandlers), status \in StatusReplies :
       /\ kHandlers[h].pc = "checking"
       /\ status = "enrolled" => kEnrolled
       /\ status = "notEnrolled" => ~kEnrolled
       /\ IF status = "enrolled"
          THEN /\ kHandlers' = [kHandlers EXCEPT ![h].pc = "done",
                                                 ![h].isEnrolled = TRUE,
                                                 ![h].opened = TRUE]
               /\ kOverlays' = kOverlays \cup {h}
               /\ UNCHANGED kRequests
          ELSE /\ kHandlers' = [kHandlers EXCEPT ![h].pc = "enrolling",
                                                 ![h].checkFailed = (status = "failed"),
                                                 ![h].posted = TRUE]
               /\ kRequests' = Append(kRequests, LearningObjectRequest("POST", h))
               /\ UNCHANGED kOverlays
  /\ UNCHANGED <<kEnrolled, pageVars, infoVars, overviewVars>>

\* enrollUser returns, lines 69-78, and handleModuleClick goes on, lines
\* 159-181: the player after a document, the alert otherwise.
ReceiveEnrollment ==
  /\ \E h \in 1..Len(kHandlers), outcome \in EnrollOutcomes :
       /\ kHandlers[h].pc = "enrolling"
       /\ IF outcome = "document"
          THEN /\ kHandlers' = [kHandlers EXCEPT ![h].pc = "done",
                                                 ![h].enrollmentResult = "document",
                                                 ![h].opened = TRUE]
               /\ kOverlays' = kOverlays \cup {h}
               /\ kEnrolled' = TRUE
          ELSE /\ kHandlers' = [kHandlers EXCEPT ![h].pc = "done",
                                                 ![h].enrollmentResult = "null",
                                                 ![h].alerted = TRUE]
               /\ UNCHANGED <<kOverlays, kEnrolled>>
  /\ UNCHANGED <<kRequests, pageVars, infoVars, overviewVars>>

\* createFluidicPlayerModal, lines 125-133: the player posts 'status:close'
\* and every overlay's listener removes its overlay.
ClosePlayer ==
  /\ kOverlays # {}
  /\ kOverlays' = {}
  /\ UNCHANGED <<kEnrolled, kHandlers, kRequests, pageVars, infoVars, overviewVars>>

PlayerNext ==
  \/ decorateCourseOverview /\ UNCHANGED playerVars
  \/ ClickModuleItem
  \/ ClickContinue
  \/ ReceiveEnrollmentStatus
  \/ ReceiveEnrollment
  \/ ClosePlayer

(* ====================================================================== *)
(* The authentication action: app-builder/actions/authentication/index.js *)
(* ====================================================================== *)
S_code == <<"c","0">>
S_clientId == <<"i","d">>
S_clientSecret == <<"s","e","c">>
S_adminId == <<"a","i","d">>
S_adminSecret == <<"a","s","e","c">>
S_adminRefresh == <<"a","r","t">>
S_redirectUri == <<"/","c","b">>
S_authorization_code == <<"a","u","t","h","o","r","i","z","a","t","i","o","n","_","c","o","d","e">>

\* The response of a failed action: errorResponse(statusCode, message, logger)
\* of ../utils gives { error: { statusCode, body: { error: message } } }.
ActionError(statusCode, message) ==
  [statusCode |-> statusCode, error |-> <<message>>, body |-> JUndef]

\* { statusCode: 200, body: data }
ActionSuccess(data) == [statusCode |-> 200, error |-> <<>>, body |-> data]

\* An object with the given properties, those that are undefined left out.
Params(pairs) == JObj(SelectSeq(pairs, LAMBDA p : p[2].k # "undefined"))

\* validateAuthParams(params, logger): <<>> for null, or <<the error>>
validateAuthParams(ps) ==
  IF Truthy(Get(ps, "code"))
     /\ (~Truthy(Get(ps, "ALM_CLIENT_ID")) \/ ~Truthy(Get(ps, "ALM_CLIENT_SECRET")))
  THEN <<ActionError(400, "Missing required environment variables: ALM_CLIENT_ID, ALM_CLIENT_SECRET")>>
  ELSE <<>>

\* URLSearchParams.append(name, value): the value as a string
FormField(name, value) == <<name, JToString(value)>>

\* prepareAuthRequest(params): the endpoint and the form data
prepareAuthRequest(ps) ==
  IF Truthy(Get(ps, "code"))
  THEN [endpoint |-> "/oauth/token",
        formData |-> << FormField("redirect_uri", Get(ps, "redirect_uri")),
                        FormField("code", Get(ps, "code")),
                        FormField("grant_type", JStr(S_authorization_code)),
                        FormField("client_id", Get(ps, "ALM_CLIENT_ID")),
                        FormField("client_secret", Get(ps, "ALM_CLIENT_SECRET")) >>]
  ELSE [endpoint |-> "/oauth/token/refresh",
        formData |-> << FormField("refresh_token", Get(ps, "ALM_ADMIN_REFRESH_TOKEN")),
                        FormField("client_id", Get(ps, "ALM_ADMIN_CLIENT_ID")),
                        FormField("client_secret", Get(ps, "ALM_ADMIN_CLIENT_SECRET")) >>]

(* ------------------------------- inputs ------------------------------- *)
\* The parameters the action is invoked with.
AuthParamsSet ==
  {Params(<< <<"code", code>>, <<"redirect_uri", redirect>>,
             <<"ALM_CLIENT_ID", clientId>>, <<"ALM_CLIENT_SECRET", clientSecret>>,
             <<"ALM_ADMIN_CLIENT_ID", admin[1]>>,
             <<"ALM_ADMIN_CLIENT_SECRET", admin[2]>>,
             <<"ALM_ADMIN_REFRESH_TOKEN", admin[3]>> >>) :
     code \in {JUndef, JStr(<<>>), JStr(S_code)},
     redirect \in {JUndef, JStr(S_redirectUri)},
     clientId \in {JUndef, JStr(S_clientId)},
     clientSecret \in {JUndef, JStr(S_clientSecret)},
     admin \in {<<JUndef, JUndef, JUndef>>,
                <<JStr(S_adminId), JStr(S_adminSecret), JStr(S_adminRefresh)>>}}

\* The token documents of the endpoint.
TokenDocuments ==
  {JNull,
   JObj(<< <<"access_token", JStr(<<"t","1">>)>>, <<"expires_in", JNum(3600)>> >>)}

\* What the token endpoint answers: response.ok with a JSON document or a
\* body that is no JSON, a status that is not ok with a body that can or
\* cannot be read, or no response at all.
UpstreamReply(kind, status, doc) == [kind |-> kind, status |-> status, doc |-> doc]
UpstreamReplies ==
  {UpstreamReply("ok", 200, doc) : doc \in TokenDocuments}
  \cup {UpstreamReply("unparsable", 200, JUndef)}
  \cup {UpstreamReply(kind, status, JUndef) :
          kind \in {"notok", "unreadable"}, status \in {400, 401, 503}}
  \cup {UpstreamReply("error", 0, JUndef)}

(* ------------------------------- state -------------------------------- *)
VARIABLES
  tParams,    \* the parameters main was invoked with
  tPc,        \* "start", "initState", "awaitToken", "returned", "threw"
  tState,     \* "none", "ready" or "failed": the outcome of initState()
  tRequests,  \* the requests to the token endpoint, in order
  tReply,     \* <<>>, or <<the reply to the token request>>
  tReturned   \* <<>>, or <<the response main returned>>

tokenVars == <<tParams, tPc, tState, tRequests, tReply, tReturned>>

TokenStart ==
  /\ tPc = "start"
  /\ tState = "none"
  /\ tRequests = <<>>
  /\ tReply = <<>>
  /\ tReturned = <<>>

TokenInit == tParams \in AuthParamsSet /\ TokenStart

\* The action is not invoked.
TokenIdle == tParams = JObj(<<>>) /\ TokenStart

(* ------------------------------- actions ------------------------------ *)
\* main, lines 115-125: the logger is created outside the try block, then
\* the parameters are validated and initState() is awaited.
AuthMainStart ==
  /\ tPc = "start"
  /\ IF tParams.k \in {"null", "undefined"}
     THEN /\ tPc' = "threw"
          /\ UNCHANGED tReturned
     ELSE IF validateAuthParams(tParams) # <<>>
     THEN /\ tReturned' = validateAuthParams(tParams)
          /\ tPc' = "returned"
     ELSE /\ tPc' = "initState"
          /\ UNCHANGED tReturned
  /\ UNCHANGED <<tParams, tState, tRequests, tReply>>

\* main, lines 125-130: initState() settles; the token request is sent.
InitStateSettles ==
  /\ tPc = "initState"
  /\ \E ready \in BOOLEAN :
       IF ready
       THEN /\ tState' = "ready"
            /\ tRequests' = Append(tRequests, prepareAuthRequest(tParams))
            /\ tPc' = "awaitToken"
            /\ UNCHANGED tReturned
       ELSE /\ tState' = "failed"
            /\ tReturned' = <<ActionError(500, "server error")>>
            /\ tPc' = "returned"
            /\ UNCHANGED tRequests
  /\ UNCHANGED <<tParams, tReply>>

\* makeTokenRequest, lines 86-108, for a reply
makeTokenRequest(reply) ==
  CASE reply.kind = "ok" -> [data |-> <<reply.doc>>, error |-> <<>>]
    [] reply.kind = "notok" ->
         [data |-> <<>>, error |-> <<ActionError(reply.status, "API request failed")>>]
    [] OTHER -> [data |-> <<>>, error |-> <<ActionError(500, "server error")>>]

\* ReceiveTokenResponse without 'if (error) return error'.
ReceiveTokenResponseIgnoringError ==
  /\ tPc = "awaitToken"
  /\ \E reply \in UpstreamReplies :
       /\ tReply' = <<reply>>
       /\ LET result == makeTokenRequest(reply)
          IN tReturned' = <<ActionSuccess(IF result.data # <<>> THEN result.data[1]
                                          ELSE JUndef)>>
  /\ tPc' = "returned"
  /\ UNCHANGED <<tParams, tState, tRequests>>

\* main, lines 130-144: the token request is answered.
ReceiveTokenResponse ==
  /\ tPc = "awaitToken"
  /\ \E reply \in UpstreamReplies :
       /\ tReply' = <<reply>>
       /\ LET result == makeTokenRequest(reply)
          IN tReturned' = IF result.error # <<>> THEN result.error
                          ELSE <<ActionSuccess(result.data[1])>>
  /\ tPc' = "returned"
  /\ UNCHANGED <<tParams, tState, tRequests>>

TokenNext == AuthMainStart \/ InitStateSettles \/ ReceiveTokenResponse

(* ====================================================================== *)
(* The course-viewer action: main, fetchCourseData, publishToEdsCache and *)
(* fetchCourseInstances.                                                  *)
(* ====================================================================== *)
S_DefaultInstance == <<"D","e","f","a","u","l","t"," ","I","n","s","t","a","n","c","e">>
S_Active == <<"A","c","t","i","v","e">>
S_Unknown == <<"U","n","k","n","o","w","n">>
S_InstancePrefix == <<"I","n","s","t","a","n","c","e"," ">>
S_course == <<"c","o","u","r","s","e">>
S_loId7 == <<"c","o","u","r","s","e",":","7">>
S_lp7 == <<"l","e","a","r","n","i","n","g","P","r","o","g","r","a","m",":","7">>
T_EventsBody == <<"{","\"","e","v","e","n","t","s","\"",":","[","{","\"","d","a","t","a","\"",":","{","\"","l","o","I","d","\"",":","\"","c","o","u","r","s","e",":","7","\"","}","}","]","}">>
T_EmptyEventsBody == <<"{","\"","e","v","e","n","t","s","\"",":","[","]","}">>
T_NullBody == <<"n","u","l","l">>

\* The hardcoded ALM access token of fetchCourseData and fetchCourseInstances,
\* as one opaque character.
ALM_ACCESS_TOKEN == <<"ALM_ACCESS_TOKEN">>

\* The strings a value holds: what JSON.stringify(value) spells out.
RECURSIVE StringLeaves(_)
StringLeaves(v) ==
  CASE v.k = "string" -> {v.s}
    [] v.k \in {"object", "array"} ->
         UNION {StringLeaves(v.kids[i][2]) : i \in 1..Len(v.kids)}
    [] OTHER -> {}

\* One logger call: the source line and the strings of the logged data.
LogEntry(line, value) == [line |-> line, strings |-> StringLeaves(value)]

\* v.length
Length(v) == CASE v.k = "array" -> Len(v.kids)
               [] v.k = "string" -> Len(v.s)
               [] OTHER -> 0

(* ------------------------------ responses ----------------------------- *)
Response(statusCode, contentType, message, html) ==
  [statusCode |-> statusCode, contentType |-> contentType,
   message |-> message, html |-> html]

\* errorResponse(statusCode, message, logger) of ../../utils
errorResponse(statusCode, message) == Response(statusCode, "error", message, <<>>)

(* --------------------------- webhook detection ------------------------ *)
Event(loId, instanceId) ==
  JObj(<< <<"data", JObj(<< <<"loId", loId>>, <<"instanceId", instanceId>> >>)>> >>)

\* JSON.parse on the body texts of the model; any other text is no JSON.
JSONparseThrows(text) == text \notin {T_EventsBody, T_EmptyEventsBody, T_NullBody}
JSONparse(text) ==
  CASE text = T_EventsBody ->
         JObj(<< <<"events", JArr(<<JObj(<< <<"data",
                   JObj(<< <<"loId", JStr(S_loId7)>> >>)>> >>)>>)>> >>)
    [] text = T_EmptyEventsBody -> JObj(<< <<"events", JArr(<<>>)>> >>)
    [] OTHER -> JNull

\* Format 2: params.body is a JSON string.
WebhookInBodyString(body) ==
  IF JSONparseThrows(body.s) \/ JSONparse(body.s).k = "null" THEN JNull
  ELSE IF Truthy(Get(JSONparse(body.s), "events"))
          /\ Get(JSONparse(body.s), "events").k = "array"
       THEN JSONparse(body.s)
       ELSE JNull

\* Format 5: the payload rebuilt from individual parameters.
ReconstructedData(params, now) ==
  JObj(<< <<"accountId", Get(params, "accountId")>>,
          <<"events",
            JArr(<< JObj(<< <<"eventId", Get(params, "eventId")>>,
                            <<"eventName", Get(params, "eventName")>>,
                            <<"timestamp", Or(Get(params, "timestamp"),
                                              JStr(toISOString(now)))>>,
                            <<"eventInfo", Or(Get(params, "eventInfo"), JStr(<<>>))>>,
                            <<"data", JObj(<< <<"loId", Get(params, "loId")>>,
                                              <<"loType", Or(Get(params, "loType"),
                                                             JStr(S_course))>> >>)>> >>) >>)>> >>)

\* webhookData of main: formats 1 to 4 in turn, then format 5.
FindWebhookData(params, now) ==
  LET events == Get(params, "events")
      body == Get(params, "body")
      found ==
        IF Truthy(events) /\ events.k = "array" /\ Length(events) > 0 THEN params
        ELSE IF Truthy(body) /\ body.k = "string" THEN WebhookInBodyString(body)
        ELSE IF Truthy(body) /\ body.k \in {"object", "array"}
                /\ Truthy(Get(body, "events")) THEN body
        ELSE LET value == Find(Items(params),
                               LAMBDA v : /\ Truthy(v)
                                          /\ v.k \in {"object", "array"}
                                          /\ Truthy(Get(v, "events"))
                                          /\ Get(v, "events").k = "array")
             IN IF Truthy(value) THEN value ELSE JNull
  IN IF ~Truthy(found) /\ Truthy(Get(params, "accountId"))
        /\ Truthy(Get(params, "eventId")) /\ Truthy(Get(params, "eventName"))
        /\ Truthy(Get(params, "loId"))
     THEN ReconstructedData(params, now)
     ELSE found

\* The request carries webhook events.
HasWebhookEvents(params, now) ==
  LET webhookData == FindWebhookData(params, now)
  IN Truthy(webhookData) /\ Truthy(Get(webhookData, "events"))
     /\ Length(Get(webhookData, "events")) > 0

(* ------------------------------- routing ------------------------------ *)
Respond(response) ==
  [kind |-> "respond", response |-> response, courseId |-> JNull, instanceId |-> JNull]
\* Proceed without the check that a course id was extracted.
ProceedUnchecked(courseId, instanceId) ==
  [kind |-> "fetch", response |-> errorResponse(0, ""),
   courseId |-> courseId, instanceId |-> instanceId]
Proceed(courseId, instanceId) ==
  IF ~Truthy(courseId)
  THEN Respond(errorResponse(400, "Could not extract course ID from request"))
  ELSE [kind |-> "fetch", response |-> errorResponse(0, ""),
        courseId |-> courseId, instanceId |-> instanceId]
Throw == [kind |-> "throw", response |-> errorResponse(500, "server error"),
          courseId |-> JNull, instanceId |-> JNull]

\* The webhook branch of main: the first event decides.
RouteWebhook(webhookData) ==
  LET event == Get(Get(webhookData, "events"), "0")
      data == Get(event, "data")
      loId == Get(data, "loId")
  IN IF event.k \in {"null", "undefined"} THEN Throw
     ELSE IF Truthy(data) /\ Truthy(loId)
     THEN IF loId.k # "string" THEN Throw
          ELSE IF Len(Split(loId.s, ":")) = 2
          THEN Proceed(JStr(Split(loId.s, ":")[2]),
                       IF Truthy(Get(data, "instanceId")) THEN Get(data, "instanceId")
                       ELSE JNull)
          ELSE Respond(errorResponse(400, "Invalid loId format"))
     ELSE Respond(errorResponse(400, "Missing loId in event data"))

\* params.__ow_path with a leading '/' added if absent.
NormalizedPath(owPath) == IF owPath.s # <<>> /\ owPath.s[1] = "/" THEN owPath.s
                          ELSE <<"/">> \o owPath.s

\* path.split('/').filter(part => part.length > 0)
PathParts(path) == SelectSeq(Split(path, "/"), LAMBDA part : Len(part) > 0)

\* RoutePath without the check that the path is a course overlay path.
RoutePathUnchecked(owPath) ==
  LET pathParts == PathParts(NormalizedPath(owPath))
  IN IF owPath.k # "string" THEN Throw
     ELSE IF Len(pathParts) >= 3 /\ pathParts[1] = S_overview
             /\ pathParts[2] = S_trainingId
     THEN Proceed(JStr(pathParts[3]), JNull)
     ELSE Proceed(JNull, JNull)

\* The URL branch of main.
RoutePath(owPath) ==
  LET path == NormalizedPath(owPath)
      pathParts == PathParts(path)
  IN IF owPath.k # "string" THEN Throw
     ELSE IF ~Includes(path, S_OverlayPrefix)
     THEN Respond(errorResponse(404, "is not a course overlay path"))
     ELSE IF Len(pathParts) >= 3 /\ pathParts[1] = S_overview
             /\ pathParts[2] = S_trainingId
     THEN Proceed(JStr(pathParts[3]),
                  IF Len(pathParts) >= 5 /\ pathParts[4] = S_trainingInstanceId
                  THEN JStr(pathParts[5]) ELSE JNull)
     ELSE Proceed(JNull, JNull)

\* Route with the connection test examined after the webhook payload and the
\* URL path.
RouteTestConnectionLast(params, now) ==
  IF HasWebhookEvents(params, now)
  THEN RouteWebhook(FindWebhookData(params, now))
  ELSE IF Truthy(Get(params, "__ow_path")) THEN RoutePath(Get(params, "__ow_path"))
  ELSE IF StrictEq(Get(params, "message"), JStr(S_TestConnection))
  THEN Respond(Response(200, "application/json", "success", <<>>))
  ELSE Respond(errorResponse(400, "Missing webhook payload or URL path"))

\* main up to its first await: a response, or the ids to fetch.
Route(params, now) ==
  IF StrictEq(Get(params, "message"), JStr(S_TestConnection))
  THEN Respond(Response(200, "application/json", "success", <<>>))
  ELSE IF HasWebhookEvents(params, now)
  THEN RouteWebhook(FindWebhookData(params, now))
  ELSE IF Truthy(Get(params, "__ow_path")) THEN RoutePath(Get(params, "__ow_path"))
  ELSE Respond(errorResponse(400, "Missing webhook payload or URL path"))

\* What main logs up to its first await.
RouteLog(params, now) ==
  {LogEntry(184, JNull), LogEntry(185, params)}
  \cup (IF StrictEq(Get(params, "message"), JStr(S_TestConnection)) THEN {}
        ELSE IF HasWebhookEvents(params, now)
        THEN {LogEntry(270, FindWebhookData(params, now)),
              LogEntry(273, Get(Get(FindWebhookData(params, now), "events"), "0"))}
        ELSE IF Truthy(Get(params, "__ow_path"))
        THEN {LogEntry(298, Get(params, "__ow_path"))}
        ELSE {LogEntry(323, JNull)})
  \cup (IF Route(params, now).kind = "fetch"
        THEN {LogEntry(332, JArr(<<Route(params, now).courseId,
                                   Route(params, now).instanceId>>))}
        ELSE {})

(* --------------------------- fetchCourseInstances --------------------- *)
\* String.prototype.replace(c, d) with string arguments: the first c only.
ReplaceFirst(str, c, d) ==
  LET i == IndexOfChar(str, c)
  IN IF i = 0 THEN str
     ELSE SubSeq(str, 1, i - 1) \o <<d>> \o SubSeq(str, i + 1, Len(str))

\* ALM format "course:12495374_13216648" -> EDS format "12495374-13216648"
ToEdsInstanceId(almInstanceId) ==
  IF Includes(almInstanceId, <<":">>) /\ Includes(almInstanceId, <<"_">>)
  THEN ReplaceFirst(Split(almInstanceId, ":")[2], "_", "-")
  ELSE almInstanceId

InstanceRefs(courseData) ==
  LET rels == Get(Get(courseData, "data"), "relationships")
  IN IF Truthy(rels) /\ Truthy(Get(rels, "instances"))
        /\ Truthy(Get(Get(rels, "instances"), "data"))
     THEN Items(Get(Get(rels, "instances"), "data"))
     ELSE <<>>

\* courseData.data.relationships of a document without data, and
\* almInstanceId.includes of an id that is no string, are TypeErrors.
InstancesThrow(courseData) ==
  \/ Get(courseData, "data").k \in {"null", "undefined"}
  \/ \E i \in 1..Len(InstanceRefs(courseData)) :
       Get(InstanceRefs(courseData)[i], "id").k # "string"

\* The instances fetchCourseInstances extracts from an ok response.
ExtractedInstances(courseData) ==
  [i \in 1..Len(InstanceRefs(courseData)) |->
     LET instanceRef == InstanceRefs(courseData)[i]
         instanceData ==
           Find(Items(Get(courseData, "included")),
                LAMBDA item : StrictEq(Get(item, "id"), Get(instanceRef, "id"))
                     /\ StrictEq(Get(item, "type"), JStr(S_learningObjectInstance)))
         edsInstanceId == ToEdsInstanceId(Get(instanceRef, "id").s)
     IN IF Truthy(instanceData)
        THEN [id |-> JStr(edsInstanceId),
              almId |-> Get(instanceData, "id"),
              name |-> Or(OptGet(OptGet(OptGet(OptGet(instanceData, "attributes"),
                                               "localizedMetadata"), "0"), "name"),
                          JStr(S_DefaultInstance)),
              state |-> Or(OptGet(OptGet(instanceData, "attributes"), "state"),
                           JStr(S_Active))]
        ELSE [id |-> JStr(edsInstanceId),
              almId |-> Get(instanceRef, "id"),
              name |-> JStr(S_InstancePrefix \o edsInstanceId),
              state |-> JStr(S_Unknown)]]

\* What fetchCourseInstances returns for the reply that ends its requests.
InstancesOfReply(reply) ==
  IF reply.status = "ok" /\ ~InstancesThrow(reply.doc)
  THEN ExtractedInstances(reply.doc)
  ELSE <<>>

(* ------------------------------- inputs ------------------------------- *)
\* The most instances a course of the model has.
MaxInstances == 2

\* The documented limit on the length of a course id.
MaxCourseIdLength == 50

CourseId7 == <<"7">>
MarkupCourseId == <<"a","<","b">>
LongCourseId == [i \in 1..(MaxCourseIdLength + 1) |-> "1"]
InstanceId71 == <<"7","-","1">>
EdsAuthToken == <<"e","d","s","-","s","e","c","r","e","t">>

OverlayPath(courseId) == S_OverlayPrefix \o courseId
InstancePath(courseId, instance) ==
  OverlayPath(courseId) \o <<"/">> \o S_trainingInstanceId \o <<"/">> \o instance

WebhookEvents(loId) == JArr(<<Event(JStr(loId), JUndef)>>)

PathRequest(path) == JObj(<< <<"__ow_path", JStr(path)>> >>)
OtherPath == <<"/","o","t","h","e","r","/","7">>

\* The parameters of a request, without EDS_AUTH_TOKEN.
RequestParams ==
  { JObj(<<>>),
    PathRequest(<<>>),
    PathRequest(OverlayPath(CourseId7)),
    PathRequest(Tail(InstancePath(CourseId7, InstanceId71))),
    PathRequest(OverlayPath(MarkupCourseId)),
    PathRequest(OverlayPath(LongCourseId)),
    PathRequest(S_OverlayPrefix),
    PathRequest(<<"/","x">> \o OverlayPath(CourseId7)),
    PathRequest(OtherPath),
    PathRequest(Tail(OtherPath)),
    JObj(<< <<"__ow_path", JNum(7)>> >>),
    JObj(<< <<"message", JStr(S_TestConnection)>>, <<"__ow_path", JStr(OtherPath)>> >>),
    JObj(<< <<"message", JStr(S_TestConnection)>>,
            <<"events", WebhookEvents(S_loId7)>> >>),
    JObj(<< <<"message", JStr(S_TestConnection)>>,
            <<"__ow_path", JStr(OverlayPath(CourseId7))>> >>),
    JObj(<< <<"message", JStr(S_TestConnection)>>, <<"body", JStr(T_EventsBody)>> >>),
    JObj(<< <<"message", JStr(S_TestConnection)>> >>),
    JObj(<< <<"events", WebhookEvents(S_loId7)>>, <<"__ow_path", JStr(OtherPath)>> >>),
    JObj(<< <<"events", JArr(<<Event(JStr(S_lp7), JStr(InstanceId71))>>)>> >>),
    JObj(<< <<"events", WebhookEvents(<<"7">>)>> >>),
    JObj(<< <<"events", WebhookEvents(<<"a",":","7",":","1">>)>> >>),
    JObj(<< <<"events", JArr(<<JObj(<< <<"data", JObj(<<>>)>> >>)>>)>> >>),
    JObj(<< <<"events", JArr(<<JNull>>)>> >>),
    JObj(<< <<"events", JArr(<<Event(JNum(7), JUndef)>>)>> >>),
    JObj(<< <<"events", JArr(<<>>)>>, <<"__ow_path", JStr(OverlayPath(CourseId7))>> >>),
    JObj(<< <<"body", JStr(T_EventsBody)>> >>),
    JObj(<< <<"body", JStr(T_EmptyEventsBody)>>, <<"__ow_path", JStr(OtherPath)>> >>),
    JObj(<< <<"body", JStr(<<"x">>)>>,
            <<"payload", JObj(<< <<"events", WebhookEvents(S_loId7)>> >>)>> >>),
    JObj(<< <<"body", JObj(<< <<"events", WebhookEvents(S_lp7)>> >>)>> >>),
    JObj(<< <<"payload", JObj(<< <<"events", WebhookEvents(S_loId7)>> >>)>> >>),
    JObj(<< <<"accountId", JNum(1)>>, <<"eventId", JStr(<<"e">>)>>,
            <<"eventName", JStr(<<"n">>)>>, <<"loId", JStr(S_lp7)>> >>) }

WithToken(request) ==
  JObj(request.kids \o << <<"EDS_AUTH_TOKEN", JStr(EdsAuthToken)>> >>)

\* The requests that are also made with an EDS_AUTH_TOKEN.
TokenRequestParams ==
  { PathRequest(OverlayPath(CourseId7)),
    PathRequest(Tail(InstancePath(CourseId7, InstanceId71))),
    PathRequest(OverlayPath(MarkupCourseId)),
    PathRequest(OtherPath),
    JObj(<< <<"message", JStr(S_TestConnection)>>, <<"__ow_path", JStr(OtherPath)>> >>),
    JObj(<< <<"message", JStr(S_TestConnection)>>,
            <<"__ow_path", JStr(OverlayPath(CourseId7))>> >>),
    JObj(<< <<"events", WebhookEvents(S_loId7)>>, <<"__ow_path", JStr(OtherPath)>> >>) }

\* The requests of the model.
ParamsSet == RequestParams \cup {WithToken(request) : request \in TokenRequestParams}

\* The documents the ALM API answers a course request with.
ViewerDocuments ==
  { JObj(<<>>),
    Document(S_Course, "full", PlainTitle, JUndef, JUndef, "normal", "bare"),
    Document(S_learningProgram, "full", PlainTitle, JUndef, JUndef, "markup", "refs") }

\* A reply of an API: a network error, a status that is not ok, an ok status
\* with a body that is no JSON, or an ok status with a document.
Reply(status, doc) == [status |-> status, doc |-> doc]
FailedReplies == {Reply(s, JNull) : s \in {"error", "notok", "unparsable"}}
CourseReplies == FailedReplies \cup {Reply("ok", d) : d \in ViewerDocuments}

\* The ids of the instances of the model; the last is the EDS form of the first.
InstanceIdPool ==
  << <<"c",":","7","_","1">>, <<"c",":","7","_","2","_","3">>, <<"7","-","1">> >>

InstanceRefLists == UNION {[1..n -> 1..Len(InstanceIdPool)] : n \in 0..MaxInstances}

\* An instance-list document: the instances at odd positions are included.
InstanceDocument(refs) ==
  JObj(<< <<"data",
            JObj(<< <<"id", JStr(S_loId7)>>,
                    <<"relationships",
                      JObj(<< <<"instances",
                                JObj(<< <<"data",
                                          JArr([i \in 1..Len(refs) |->
                                                  Ref(JStr(InstanceIdPool[refs[i]]))])>> >>)>> >>)>> >>)>>,
          <<"included",
            JArr([i \in 1..((Len(refs) + 1) \div 2) |->
                    JObj(<< <<"id", JStr(InstanceIdPool[refs[2 * i - 1]])>>,
                            <<"type", JStr(S_learningObjectInstance)>>,
                            <<"attributes", JObj(<< <<"state", JStr(<<"R">>)>> >>)>> >>)])>> >>)

InstanceDocuments ==
  {InstanceDocument(refs) : refs \in InstanceRefLists}
  \cup {JObj(<<>>), JObj(<< <<"data", JObj(<< <<"id", JStr(S_loId7)>> >>)>> >>)}

InstanceReplies == FailedReplies \cup {Reply("ok", d) : d \in InstanceDocuments}

PostOutcomes == {"ok", "notok", "error"}

(* ------------------------------- state -------------------------------- *)
VARIABLES
  params,       \* the parameters main was invoked with
  pc,           \* where main stands
  courseId,     \* main's courseId
  instanceId,   \* main's instanceId
  courseReplies,\* the replies fetchCourseData received, in order
  fetched,      \* what fetchCourseData returned (null until then)
  prepared,     \* <<response>> once main has built its response object
  returned,     \* <<response>> once main has returned
  requests,     \* every HTTP request issued, in order
  log,          \* the logger calls made
  pubPc,        \* where publishToEdsCache stands
  pubCatch,     \* a .catch handler is attached to the publisher's promise
  instances,    \* the instances fetchCourseInstances returned
  instanceReplies, \* the replies fetchCourseInstances received, in order
  pubPending,   \* the instance POSTs awaiting their response
  pubResults,   \* the outcome of each instance POST
  pubOutcome,   \* "none", "resolved" or "rejected": the publisher's promise
  unhandledRejection \* a promise was rejected with no handler attached

viewerVars == <<params, pc, courseId, instanceId, courseReplies, fetched, prepared,
                returned, requests, log, pubPc, pubCatch, instances, instanceReplies,
                pubPending,
                pubResults, pubOutcome, unhandledRejection>>
mainData == <<params, courseId, instanceId, courseReplies, fetched>>
pubVars == <<pubPc, pubCatch, instances, instanceReplies, pubPending, pubResults,
             pubOutcome,
             unhandledRejection>>
\* Everything outside the course-viewer action.
nonViewerVars == <<helperVars, authVars, callbackVars, blockVars, tokenVars>>
vars == <<viewerVars, nonViewerVars>>

ViewerStart ==
  /\ pc = "start"
  /\ courseId = JNull
  /\ instanceId = JNull
  /\ courseReplies = <<>>
  /\ fetched = JNull
  /\ prepared = <<>>
  /\ returned = <<>>
  /\ requests = <<>>
  /\ log = {}
  /\ pubPc = "idle"
  /\ pubCatch = FALSE
  /\ instances = <<>>
  /\ instanceReplies = <<>>
  /\ pubPending = {}
  /\ pubResults = <<>>
  /\ pubOutcome = "none"
  /\ unhandledRejection = FALSE

\* main is invoked with one of the requests.
ViewerInit == params \in ParamsSet /\ ViewerStart

(* ------------------------------ requests ------------------------------ *)
\* GET {ALM_API_BASE}/learningObjects/{resource}:{courseId}?include=...
AlmGet(by, resource, id) ==
  [by |-> by, method |-> "GET", host |-> "learningmanager.adobe.com",
   resource |-> resource, courseId |-> JToString(id), instanceId |-> <<>>,
   level |-> "learningObject", authorization |-> ALM_ACCESS_TOKEN]

\* POST https://admin.hlx.page/preview/{baseUrl}/overview/trainingId/{courseId}
\*      [/trainingInstanceId/{instanceId}]
EdsPost(id, level, instance) ==
  [by |-> "publishToEdsCache", method |-> "POST", host |-> "admin.hlx.page",
   resource |-> "preview", courseId |-> JToString(id),
   instanceId |-> IF level = "instance" THEN JToString(instance) ELSE <<>>,
   level |-> level, authorization |-> JToString(Get(params, "EDS_AUTH_TOKEN"))]

\* MainStart without the try block of main: an exception rejects the promise.
MainStartUncaught ==
  /\ pc = "start"
  /\ LET r == Route(params, hClock)
     IN /\ log' = log \cup RouteLog(params, hClock)
                      \cup (IF r.kind = "throw" THEN {LogEntry(369, JNull)} ELSE {})
                      \cup (IF r.kind = "fetch" THEN {LogEntry(389, r.courseId)} ELSE {})
        /\ IF r.kind = "fetch"
           THEN /\ courseId' = r.courseId
                /\ instanceId' = r.instanceId
                /\ requests' = Append(requests,
                                      AlmGet("fetchCourseData", "course", r.courseId))
                /\ pc' = "awaitCourse"
                /\ UNCHANGED returned
           ELSE /\ returned' = IF r.kind = "throw" THEN returned ELSE <<r.response>>
                /\ pc' = IF r.kind = "throw" THEN "rejected" ELSE "returned"
                /\ UNCHANGED <<courseId, instanceId, requests>>
  /\ UNCHANGED <<params, courseReplies, fetched, prepared>>
  /\ UNCHANGED pubVars
  /\ UNCHANGED nonViewerVars

(* -------------------------------- main -------------------------------- *)
\* main, lines 177-335: from the invocation to its first await.
MainStart ==
  /\ pc = "start"
  /\ LET r == Route(params, hClock)
     IN /\ log' = log \cup RouteLog(params, hClock)
                      \cup (IF r.kind = "throw" THEN {LogEntry(369, JNull)} ELSE {})
                      \cup (IF r.kind = "fetch" THEN {LogEntry(389, r.courseId)} ELSE {})
        /\ IF r.kind = "fetch"
           THEN /\ courseId' = r.courseId
                /\ instanceId' = r.instanceId
                /\ requests' = Append(requests,
                                      AlmGet("fetchCourseData", "course", r.courseId))
                /\ pc' = "awaitCourse"
                /\ UNCHANGED returned
           ELSE /\ returned' = <<r.response>>
                /\ pc' = "returned"
                /\ UNCHANGED <<courseId, instanceId, requests>>
  /\ UNCHANGED <<params, courseReplies, fetched, prepared>>
  /\ UNCHANGED pubVars
  /\ UNCHANGED nonViewerVars

\* ReceiveCourseResponse trying the learning program after any failure,
\* a network error included.
ReceiveCourseResponseRetryingErrors ==
  /\ pc = "awaitCourse"
  /\ \E reply \in CourseReplies :
       /\ courseReplies' = Append(courseReplies, reply)
       /\ IF reply.status = "ok"
          THEN /\ fetched' = reply.doc
               /\ pc' = "fetched"
               /\ UNCHANGED requests
          ELSE /\ requests' = Append(requests,
                                     AlmGet("fetchCourseData", "learningProgram", courseId))
               /\ pc' = "awaitProgram"
               /\ UNCHANGED fetched
  /\ UNCHANGED <<params, courseId, instanceId, prepared, returned, log>>
  /\ UNCHANGED pubVars
  /\ UNCHANGED nonViewerVars

\* ReceiveCourseResponse publishing to the EDS cache as soon as the course
\* is fetched, before the response is built.
ReceiveCourseResponsePublishing ==
  /\ pc = "awaitCourse"
  /\ \E reply \in CourseReplies :
       /\ courseReplies' = Append(courseReplies, reply)
       /\ CASE reply.status = "ok" ->
                 /\ fetched' = reply.doc
                 /\ pc' = "fetched"
                 /\ requests' = Append(requests, EdsPost(courseId, "course", JNull))
            [] reply.status = "notok" ->
                 /\ requests' = Append(requests,
                                       AlmGet("fetchCourseData", "learningProgram", courseId))
                 /\ pc' = "awaitProgram"
                 /\ UNCHANGED fetched
            [] OTHER ->
                 /\ fetched' = JNull
                 /\ pc' = "fetched"
                 /\ UNCHANGED requests
  /\ UNCHANGED <<params, courseId, instanceId, prepared, returned, log>>
  /\ UNCHANGED pubVars
  /\ UNCHANGED nonViewerVars

\* fetchCourseData, lines 391-433: the reply to the course request.
ReceiveCourseResponse ==
  /\ pc = "awaitCourse"
  /\ \E reply \in CourseReplies :
       /\ courseReplies' = Append(courseReplies, reply)
       /\ CASE reply.status = "ok" ->
                 /\ fetched' = reply.doc
                 /\ pc' = "fetched"
                 /\ log' = log \cup {LogEntry(398, JNull)}
                 /\ UNCHANGED requests
            [] reply.status = "notok" ->
                 /\ requests' = Append(requests,
                                       AlmGet("fetchCourseData", "learningProgram", courseId))
                 /\ pc' = "awaitProgram"
                 /\ log' = log \cup {LogEntry(398, JNull), LogEntry(409, courseId)}
                 /\ UNCHANGED fetched
            [] OTHER ->
                 /\ fetched' = JNull
                 /\ pc' = "fetched"
                 /\ log' = log \cup {LogEntry(430, JNull)}
                 /\ UNCHANGED requests
  /\ UNCHANGED <<params, courseId, instanceId, prepared, returned>>
  /\ UNCHANGED pubVars
  /\ UNCHANGED nonViewerVars

\* fetchCourseData, lines 411-433: the reply to the learning program request.
ReceiveProgramResponse ==
  /\ pc = "awaitProgram"
  /\ \E reply \in CourseReplies :
       /\ courseReplies' = Append(courseReplies, reply)
       /\ fetched' = IF reply.status = "ok" THEN reply.doc ELSE JNull
       /\ log' = log \cup {LogEntry(IF reply.status \in {"ok", "notok"} THEN 418 ELSE 430,
                                     JNull)}
  /\ pc' = "fetched"
  /\ UNCHANGED <<params, courseId, instanceId, prepared, returned, requests>>
  /\ UNCHANGED pubVars
  /\ UNCHANGED nonViewerVars

\* MainProcess starting the publisher for a course that was not found as well.
MainProcessPublishingNotFound ==
  /\ pc = "fetched"
  /\ IF ~Truthy(fetched)
     THEN /\ prepared' = <<errorResponse(404, "Course not found")>>
          /\ pc' = "prepared"
          /\ UNCHANGED <<returned, log>>
     ELSE IF processCourseDataThrows(fetched)
     THEN /\ returned' = <<errorResponse(500, "server error")>>
          /\ pc' = "returned"
          /\ log' = log \cup {LogEntry(369, JNull)}
          /\ UNCHANGED prepared
     ELSE \E random \in [1..Len(ModuleIndexes(fetched)) -> BOOLEAN] :
            /\ prepared' =
                 <<Response(200, "text/html", "",
                            generateCourseHTML(processCourseData(
                              fetched, courseId, instanceId, random, hClock)))>>
            /\ pc' = "prepared"
            /\ log' = log \cup {LogEntry(662, JNull), LogEntry(358, courseId)}
            /\ UNCHANGED returned
  /\ UNCHANGED <<params, courseId, instanceId, courseReplies, fetched, requests>>
  /\ UNCHANGED pubVars
  /\ UNCHANGED nonViewerVars

\* main, lines 335-358: the course data is processed and the response built.
MainProcess ==
  /\ pc = "fetched"
  /\ IF ~Truthy(fetched)
     THEN /\ returned' = <<errorResponse(404, "Course not found")>>
          /\ pc' = "returned"
          /\ UNCHANGED <<prepared, log>>
     ELSE IF processCourseDataThrows(fetched)
     THEN /\ returned' = <<errorResponse(500, "server error")>>
          /\ pc' = "returned"
          /\ log' = log \cup {LogEntry(369, JNull)}
          /\ UNCHANGED prepared
     ELSE \E random \in [1..Len(ModuleIndexes(fetched)) -> BOOLEAN] :
            /\ prepared' =
                 <<Response(200, "text/html", "",
                            generateCourseHTML(processCourseData(
                              fetched, courseId, instanceId, random, hClock)))>>
            /\ pc' = "prepared"
            /\ log' = log \cup {LogEntry(662, JNull), LogEntry(358, courseId)}
            /\ UNCHANGED returned
  /\ UNCHANGED <<params, courseId, instanceId, courseReplies, fetched, requests>>
  /\ UNCHANGED pubVars
  /\ UNCHANGED nonViewerVars

\* main, line 361, and publishToEdsCache, lines 810-851, up to its first
\* await: the call runs synchronously inside main, and main attaches .catch
\* to the promise it returns.
MainPublish ==
  /\ pc = "prepared"
  /\ pc' = "publishing"
  /\ pubCatch' = TRUE
  /\ IF ~Truthy(Get(params, "EDS_AUTH_TOKEN"))
     THEN /\ pubPc' = "done"
          /\ pubOutcome' = "resolved"
          /\ log' = log \cup {LogEntry(811, JArr(<<courseId, instanceId>>)),
                              LogEntry(817, JNull)}
          /\ UNCHANGED requests
     ELSE IF Truthy(instanceId)
     THEN /\ requests' = Append(requests, EdsPost(courseId, "instance", instanceId))
          /\ pubPc' = "awaitPost"
          /\ log' = log \cup {LogEntry(811, JArr(<<courseId, instanceId>>)),
                              LogEntry(836, JArr(<<courseId, instanceId>>))}
          /\ UNCHANGED pubOutcome
     ELSE /\ requests' = Append(requests,
                                AlmGet("fetchCourseInstances", "course", courseId))
          /\ pubPc' = "awaitInstancesCourse"
          /\ log' = log \cup {LogEntry(811, JArr(<<courseId, instanceId>>)),
                              LogEntry(849, JNull), LogEntry(916, courseId)}
          /\ UNCHANGED pubOutcome
  /\ UNCHANGED <<mainData, prepared, returned>>
  /\ UNCHANGED <<instances, instanceReplies, pubPending, pubResults, unhandledRejection>>
  /\ UNCHANGED nonViewerVars

\* main, line 366: return response.
MainReturn ==
  /\ pc = "publishing"
  /\ returned' = prepared
  /\ pc' = "returned"
  /\ UNCHANGED <<mainData, prepared, requests, log>>
  /\ UNCHANGED pubVars
  /\ UNCHANGED nonViewerVars

\* StartPosts with the course-level POST issued after the instance POSTs too.
StartPostsWithCoursePost(list, lines) ==
  /\ instances' = list
  /\ IF Len(list) > 0
     THEN /\ requests' = requests \o [i \in 1..Len(list) |->
                                        EdsPost(courseId, "instance", list[i].id)]
                                  \o <<EdsPost(courseId, "course", JNull)>>
          /\ pubPending' = 1..Len(list)
          /\ pubResults' = [i \in 1..Len(list) |-> "pending"]
          /\ pubPc' = "awaitInstancePosts"
          /\ log' = log \cup lines \cup {LogEntry(853, JNull)}
                        \cup {LogEntry(858, list[i].id) : i \in 1..Len(list)}
                        \cup {LogEntry(987, JArr(<<list[i].id, list[i].almId,
                                                   list[i].name, list[i].state>>)) :
                                i \in 1..Len(list)}
     ELSE /\ requests' = Append(requests, EdsPost(courseId, "course", JNull))
          /\ pubPc' = "awaitPost"
          /\ log' = log \cup lines \cup {LogEntry(883, courseId), LogEntry(887, courseId)}
          /\ UNCHANGED <<pubPending, pubResults>>

(* --------------------------- publishToEdsCache ------------------------ *)
\* publishToEdsCache, lines 851-898: with the instances known, one POST per
\* instance is started, or the course-level POST when there is none.
StartPosts(list, lines) ==
  /\ instances' = list
  /\ IF Len(list) > 0
     THEN /\ requests' = requests \o [i \in 1..Len(list) |->
                                        EdsPost(courseId, "instance", list[i].id)]
          /\ pubPending' = 1..Len(list)
          /\ pubResults' = [i \in 1..Len(list) |-> "pending"]
          /\ pubPc' = "awaitInstancePosts"
          /\ log' = log \cup lines \cup {LogEntry(853, JNull)}
                        \cup {LogEntry(858, list[i].id) : i \in 1..Len(list)}
                        \cup {LogEntry(987, JArr(<<list[i].id, list[i].almId,
                                                   list[i].name, list[i].state>>)) :
                                i \in 1..Len(list)}
     ELSE /\ requests' = Append(requests, EdsPost(courseId, "course", JNull))
          /\ pubPc' = "awaitPost"
          /\ log' = log \cup lines \cup {LogEntry(883, courseId), LogEntry(887, courseId)}
          /\ UNCHANGED <<pubPending, pubResults>>

\* fetchCourseInstances, lines 918-998: the reply to the course request.
ReceiveInstancesCourseResponse ==
  /\ pubPc = "awaitInstancesCourse"
  /\ pc = "returned"
  /\ \E reply \in InstanceReplies :
       /\ instanceReplies' = Append(instanceReplies, reply)
       /\ IF reply.status = "notok"
          THEN /\ requests' = Append(requests,
                                     AlmGet("fetchCourseInstances", "learningProgram",
                                            courseId))
               /\ pubPc' = "awaitInstancesProgram"
               /\ log' = log \cup {LogEntry(928, courseId)}
               /\ UNCHANGED <<instances, pubPending, pubResults>>
          ELSE StartPosts(InstancesOfReply(reply),
                          {LogEntry(IF reply.status = "ok" /\ ~InstancesThrow(reply.doc)
                                    THEN 985 ELSE 996, JNull)})
  /\ UNCHANGED <<mainData, pc, prepared, returned>>
  /\ UNCHANGED <<pubCatch, pubOutcome, unhandledRejection>>
  /\ UNCHANGED nonViewerVars

\* fetchCourseInstances, lines 930-998: the reply to the learning program
\* request.
ReceiveInstancesProgramResponse ==
  /\ pubPc = "awaitInstancesProgram"
  /\ pc = "returned"
  /\ \E reply \in InstanceReplies :
       /\ instanceReplies' = Append(instanceReplies, reply)
       /\ StartPosts(InstancesOfReply(reply),
                     {LogEntry(CASE reply.status = "notok" -> 992
                                 [] reply.status = "ok" /\ ~InstancesThrow(reply.doc) -> 985
                                 [] OTHER -> 996, JNull)})
  /\ UNCHANGED <<mainData, pc, prepared, returned>>
  /\ UNCHANGED <<pubCatch, pubOutcome, unhandledRejection>>
  /\ UNCHANGED nonViewerVars

\* ReceivePostResponse as if main awaited the publisher inside its try
\* block: a rejection turns the response into a 500.
ReceivePostResponseAwaited ==
  /\ pubPc = "awaitPost"
  /\ pc = "returned"
  /\ \E outcome \in PostOutcomes :
       /\ pubOutcome' = IF outcome = "error" THEN "rejected" ELSE "resolved"
       /\ returned' = IF outcome = "error" THEN <<errorResponse(500, "server error")>>
                      ELSE returned
  /\ pubPc' = "done"
  /\ UNCHANGED <<mainData, pc, prepared, requests, log>>
  /\ UNCHANGED <<pubCatch, instances, instanceReplies, pubPending, pubResults, unhandledRejection>>
  /\ UNCHANGED nonViewerVars

\* publishToEdsCache, lines 838-846 and 889-904: the reply to the single
\* POST.  A network error rejects the publisher's promise; main's .catch
\* handler logs it.
ReceivePostResponse ==
  /\ pubPc = "awaitPost"
  /\ pc = "returned"
  /\ \E outcome \in PostOutcomes :
       /\ pubOutcome' = IF outcome = "error" THEN "rejected" ELSE "resolved"
       /\ unhandledRejection' = (unhandledRejection \/ (outcome = "error" /\ ~pubCatch))
       /\ log' = log \cup (CASE outcome = "ok" -> {LogEntry(842, JNull)}
                             [] outcome = "notok" -> {LogEntry(845, JNull)}
                             [] OTHER -> {LogEntry(902, JNull)}
                                         \cup (IF pubCatch THEN {LogEntry(362, JNull)}
                                               ELSE {}))
  /\ pubPc' = "done"
  /\ UNCHANGED <<mainData, pc, prepared, returned, requests>>
  /\ UNCHANGED <<pubCatch, instances, instanceReplies, pubPending, pubResults>>
  /\ UNCHANGED nonViewerVars

\* ReceiveInstancePostResponse sending a failed POST once more.
ReceiveInstancePostResponseRetrying ==
  /\ pubPc = "awaitInstancePosts"
  /\ pc = "returned"
  /\ \E i \in pubPending, outcome \in PostOutcomes :
       IF outcome # "ok" /\ pubResults[i] = "pending"
       THEN /\ requests' = Append(requests, EdsPost(courseId, "instance", instances[i].id))
            /\ pubResults' = [pubResults EXCEPT ![i] = "retrying"]
            /\ UNCHANGED pubPending
       ELSE /\ pubResults' = [pubResults EXCEPT ![i] = outcome]
            /\ pubPending' = pubPending \ {i}
            /\ UNCHANGED requests
  /\ UNCHANGED <<mainData, pc, prepared, returned, log>>
  /\ UNCHANGED <<pubPc, pubCatch, instances, instanceReplies, pubOutcome, unhandledRejection>>
  /\ UNCHANGED nonViewerVars

\* publishToEdsCache, lines 856-875: the reply to the POST of one instance;
\* an error is caught and becomes that instance's result.
ReceiveInstancePostResponse ==
  /\ pubPc = "awaitInstancePosts"
  /\ pc = "returned"
  /\ \E i \in pubPending, outcome \in PostOutcomes :
       /\ pubResults' = [pubResults EXCEPT ![i] = outcome]
       /\ pubPending' = pubPending \ {i}
       /\ log' = log \cup {LogEntry(CASE outcome = "ok" -> 865
                                      [] outcome = "notok" -> 868
                                      [] OTHER -> 872, instances[i].id)}
  /\ UNCHANGED <<mainData, pc, prepared, returned, requests>>
  /\ UNCHANGED <<pubPc, pubCatch, instances, instanceReplies, pubOutcome, unhandledRejection>>
  /\ UNCHANGED nonViewerVars

\* publishToEdsCache, lines 878-880: Promise.allSettled has every result.
SettlePublish ==
  /\ pubPc = "awaitInstancePosts"
  /\ pubPending = {}
  /\ pubPc' = "done"
  /\ pubOutcome' = "resolved"
  /\ log' = log \cup {LogEntry(880, JNull)}
  /\ UNCHANGED <<mainData, pc, prepared, returned, requests>>
  /\ UNCHANGED <<pubCatch, instances, instanceReplies, pubPending, pubResults, unhandledRejection>>
  /\ UNCHANGED nonViewerVars

Next ==
  \/ MainStart
  \/ ReceiveCourseResponse
  \/ ReceiveProgramResponse
  \/ MainProcess
  \/ MainPublish
  \/ MainReturn
  \/ ReceiveInstancesCourseResponse
  \/ ReceiveInstancesProgramResponse
  \/ ReceivePostResponse
  \/ ReceiveInstancePostResponse
  \/ SettlePublish

Init == ViewerInit /\ HelperIdle /\ AuthIdle /\ CallbackIdle /\ BlocksIdle /\ TokenIdle

Spec == Init /\ [][Next]_vars

\* The helpers alone; the action is not invoked.
\* No request reaches the action.
ViewerIdle == params = JObj(<<>>) /\ ViewerStart

InitHelpers ==
  HelperInit /\ ViewerIdle /\ AuthIdle /\ CallbackIdle /\ BlocksIdle /\ TokenIdle

NextHelpers ==
  HelperNext /\ UNCHANGED <<viewerVars, authVars, callbackVars, blockVars, tokenVars>>

SpecHelpers == InitHelpers /\ [][NextHelpers]_vars

\* alm-auth.js alone.
InitAuth ==
  AuthInit /\ ViewerIdle /\ HelperIdle /\ CallbackIdle /\ BlocksIdle /\ TokenIdle

NextAuth ==
  AuthNext /\ UNCHANGED <<viewerVars, helperVars, callbackVars, blockVars, tokenVars>>

SpecAuth == InitAuth /\ [][NextAuth]_vars

\* The blocks of a page alone.
InitBlocks ==
  BlocksInit /\ ViewerIdle /\ HelperIdle /\ AuthIdle /\ CallbackIdle /\ TokenIdle

NextBlocks ==
  BlocksNext /\ UNCHANGED <<viewerVars, helperVars, authVars, callbackVars, tokenVars,
                          playerVars>>

SpecBlocks == InitBlocks /\ [][NextBlocks]_vars

\* The course-overview block of a course page and the launching of modules.
InitPlayer ==
  /\ pMeta \in MetaCourseIds
  /\ pPath = S_OverlayPrefix \o S_7
  /\ iSource = "course-info.js"
  /\ oSource \in {"markup", "restructure"}
  /\ oModules \in 0..MaxModuleItems
  /\ BlocksStart
  /\ kEnrolled \in BOOLEAN
  /\ PlayerStart
  /\ ViewerIdle /\ HelperIdle /\ AuthIdle /\ CallbackIdle /\ TokenIdle

NextPlayer ==
  PlayerNext /\ UNCHANGED <<viewerVars, helperVars, authVars, callbackVars, tokenVars>>

SpecPlayer == InitPlayer /\ [][NextPlayer]_vars

\* The OAuth callback page alone.
InitCallback ==
  CallbackInit /\ ViewerIdle /\ HelperIdle /\ AuthIdle /\ BlocksIdle /\ TokenIdle

NextCallback ==
  CallbackNext /\ UNCHANGED <<viewerVars, helperVars, authVars, blockVars, tokenVars>>

SpecCallback == InitCallback /\ [][NextCallback]_vars

\* The authentication action alone.
InitToken ==
  TokenInit /\ ViewerIdle /\ HelperIdle /\ AuthIdle /\ CallbackIdle /\ BlocksIdle

NextToken ==
  TokenNext /\ UNCHANGED <<viewerVars, helperVars, authVars, callbackVars, blockVars>>

SpecToken == InitToken /\ [][NextToken]_vars

(* ====================================================================== *)
(* Properties                                                             *)
(* ====================================================================== *)
FetchRequests == SelectSeq(requests, LAMBDA r : r.by = "fetchCourseData")
PublisherRequests ==
  SelectSeq(requests, LAMBDA r : r.by \in {"publishToEdsCache", "fetchCourseInstances"})
AlmRequests == SelectSeq(requests, LAMBDA r : r.host = "learningmanager.adobe.com")
EdsPosts == SelectSeq(requests, LAMBDA r : r.method = "POST")

\* What fetchCourseData is to return for the replies it received.
ExpectedCourseData ==
  IF courseReplies[1].status = "ok" THEN courseReplies[1].doc
  ELSE IF courseReplies[1].status = "notok" /\ Len(courseReplies) = 2
          /\ courseReplies[2].status = "ok"
  THEN courseReplies[2].doc
  ELSE JNull

\* C1: fetchCourseData first issues a GET to course:<id>, and a GET to
\* learningProgram:<id> only if the course response was not ok, never more
\* than these two; it returns the course document if the first response is
\* ok, otherwise the program document if the second is ok, otherwise null,
\* and null as well after a network or parse error.
C1_FetchCourseData ==
  /\ Len(FetchRequests) <= 2
  /\ Len(FetchRequests) >= 1 =>
       FetchRequests[1] = AlmGet("fetchCourseData", "course", courseId)
  /\ Len(FetchRequests) = 2 =>
       /\ FetchRequests[2] = AlmGet("fetchCourseData", "learningProgram", courseId)
       /\ Len(courseReplies) >= 1
       /\ courseReplies[1].status = "notok"
  /\ (Len(FetchRequests) >= 1 /\ pc \notin {"awaitCourse", "awaitProgram"}) =>
       fetched = ExpectedCourseData

\* fetchCourseData returned the program document after the course request
\* was answered with a status that is not ok.
C1_Witness ==
  /\ pc = "fetched"
  /\ Len(FetchRequests) = 2
  /\ courseReplies[2].status = "ok"
  /\ fetched = courseReplies[2].doc

\* C2: every record value generateCourseHTML places into the HTML appears
\* with & < > " ' replaced by their entities, whatever its type.
C2_AllInterpolatedTextEscaped ==
  \A h \in 1..Len(hHtmls) : \A i \in 1..Len(hHtmls[h]) :
     hHtmls[h][i].text = EscapeChars(JToString(hHtmls[h][i].raw))

\* C3: once the publisher has been started, the response main returns is the
\* 200 text/html response it built, whatever the outcome of the publisher,
\* and a rejection of the publisher is never unhandled.
C3_PublishNeverChangesResponse ==
  (pubPc # "idle" /\ pc = "returned") =>
     /\ returned = prepared
     /\ returned[1].statusCode = 200
     /\ returned[1].contentType = "text/html"
     /\ ~unhandledRejection

\* The publisher's promise was rejected after main returned its response.
C3_Witness ==
  /\ pubOutcome = "rejected"
  /\ returned # <<>>
  /\ returned[1].statusCode = 200

\* The instances publishToEdsCache works on have distinct ids.
DistinctInstanceIds ==
  \A i, j \in 1..Len(instances) : i # j => instances[i].id # instances[j].id

\* C4: within one invocation of publishToEdsCache, when the instances have
\* distinct ids (instance.id, the id the preview URL is built from), no
\* preview URL receives more than one POST, and there is no POST beyond one
\* per instance (or the single course-level POST), so a failed POST is never
\* sent again.
C4_NoRetry ==
  DistinctInstanceIds =>
    /\ \A i, j \in 1..Len(EdsPosts) : i # j => EdsPosts[i] # EdsPosts[j]
    /\ Len(EdsPosts) <= (IF Len(instances) > 0 THEN Len(instances) ELSE 1)

\* Two instances were published, one POST failed, and the publisher ended.
C4_Witness ==
  /\ pubPc = "done"
  /\ Len(instances) = 2
  /\ DistinctInstanceIds
  /\ \E i \in 1..2 : pubResults[i] \in {"notok", "error"}
  /\ Len(EdsPosts) = 2

\* C5 as stated: no request of the publisher is initiated before main has
\* returned its response.
C5_PublisherAfterReturn == Len(PublisherRequests) > 0 => returned # <<>>

\* C5, amended: the publisher is started after the response is prepared and
\* is not awaited: no request of the publisher is initiated before main has
\* built its 200 response; its first request is initiated before main
\* returns, and every later one after main has returned.
C5_PublisherAfterPrepared ==
  /\ Len(PublisherRequests) > 0 =>
       /\ prepared # <<>>
       /\ prepared[1].statusCode = 200
       /\ pc \in {"publishing", "returned"}
  /\ Len(PublisherRequests) > 1 => returned # <<>>
  /\ (pc = "publishing" /\ pubPc # "done") => Len(PublisherRequests) = 1

\* The publisher's first request is in flight and main has not returned.
C5_Witness ==
  /\ pc = "publishing"
  /\ returned = <<>>
  /\ Len(PublisherRequests) = 1

Nullish(v) == v.k \in {"null", "undefined"}

\* object?.a?.b?... on the document
RECURSIVE Dig(_, _)
Dig(v, keys) == IF keys = <<>> THEN v ELSE Dig(OptGet(v, keys[1]), Tail(keys))

Attribute(keys) == Dig(hDoc, <<"data", "attributes">> \o keys)

\* C6: for a document with a data object the record processCourseData
\* returns has no undefined or null field taken from the document: an absent
\* or null title gives 'Untitled Course', description 'No description
\* available', overview 'No overview available', an absent or zero duration
\* 'N/A', an absent skill level 'N/A', no skills 'No skills specified', an
\* absent loFormat 'Self-paced', an absent imageUrl '', absent enrollment
\* count and ratings 0, absent relationships empty lists.
C6_DefaultsApplied ==
  Len(hRecs) >= 1 =>
    LET r == hRecs[1]
    IN /\ \A v \in {r.courseTitle, r.courseDescription, r.courseOverview,
                    r.courseType, r.courseDuration, r.courseLevel, r.courseSkills,
                    r.enrollmentCount, r.ratingAvg, r.ratingCount, r.imageUrl,
                    r.loFormat} : ~Nullish(v)
       /\ Nullish(Attribute(<<"localizedMetadata", "0", "name">>)) =>
            r.courseTitle = JStr(S_UntitledCourse)
       /\ Nullish(Attribute(<<"localizedMetadata", "0", "description">>)) =>
            r.courseDescription = JStr(S_NoDescription)
       /\ Nullish(Attribute(<<"localizedMetadata", "0", "overview">>)) =>
            r.courseOverview = JStr(S_NoOverview)
       /\ ~Truthy(Attribute(<<"duration">>)) => r.courseDuration = JStr(S_NA)
       /\ (Attribute(<<"skillLevel">>).k = "undefined" /\ SkillItems(hDoc) = <<>>) =>
            r.courseLevel = JStr(S_NA)
       /\ SkillItems(hDoc) = <<>> => r.courseSkills = JStr(S_NoSkills)
       /\ Attribute(<<"loFormat">>).k = "undefined" => r.loFormat = JStr(S_SelfPaced)
       /\ Attribute(<<"imageUrl">>).k = "undefined" => r.imageUrl = JStr(<<>>)
       /\ Attribute(<<"enrollmentCount">>).k = "undefined" => r.enrollmentCount = JNum(0)
       /\ Attribute(<<"rating", "averageRating">>).k = "undefined" => r.ratingAvg = JNum(0)
       /\ Attribute(<<"rating", "ratingsCount">>).k = "undefined" => r.ratingCount = JNum(0)
       /\ Dig(hDoc, <<"data", "relationships">>).k = "undefined" =>
            /\ r.coreModules = <<>>
            /\ r.prerequisites = <<>>
            /\ r.jobAids = <<>>

Letters == {UpperCase[i] : i \in 1..26} \cup {LowerCase[i] : i \in 1..26}

\* ^[a-zA-Z0-9_-]+$ and at most MaxCourseIdLength characters
ValidCourseId(id) ==
  /\ Len(id) >= 1
  /\ Len(id) <= MaxCourseIdLength
  /\ \A i \in 1..Len(id) :
       id[i] \in Letters \cup {Digits[d] : d \in 1..10} \cup {"_", "-"}

\* C7: a request whose course id does not match ^[a-zA-Z0-9_-]+$ or is longer
\* than 50 characters is answered with a 400 error, and no ALM request is
\* made for it.
C7_InvalidCourseIdRejected ==
  (courseId.k = "string" /\ ~ValidCourseId(courseId.s)) =>
     /\ AlmRequests = <<>>
     /\ returned # <<>> => returned[1].statusCode = 400

\* The credentials the action holds.
Credentials ==
  {ALM_ACCESS_TOKEN}
  \cup (IF Get(params, "EDS_AUTH_TOKEN").k = "string"
        THEN {Get(params, "EDS_AUTH_TOKEN").s} ELSE {})

\* C8: no log message contains a credential.
C8_TokensNotLogged == \A entry \in log : entry.strings \cap Credentials = {}

\* The chunks of an HTML document at the given slots.
ChunksAt(html, slots) == SelectSeq(html, LAMBDA c : c.slot \in slots)

\* C9: processCourseData and the extract* helpers return equal results when
\* called twice with the same document and ids, and generateCourseHTML
\* downstream of them gives an equal progress count and equal module status
\* classes.
C9_HelpersDeterministic ==
  /\ Len(hRecs) = 2 =>
       /\ hRecs[1].courseSkills = hRecs[2].courseSkills
       /\ hRecs[1].coreModules = hRecs[2].coreModules
       /\ hRecs[1].prerequisites = hRecs[2].prerequisites
       /\ hRecs[1].jobAids = hRecs[2].jobAids
  /\ Len(hHtmls) = 2 =>
       ChunksAt(hHtmls[1], {"progress-completed", "progress-total", "module-item-class"})
       = ChunksAt(hHtmls[2], {"progress-completed", "progress-total", "module-item-class"})

IsTestConnection == StrictEq(Get(params, "message"), JStr(S_TestConnection))

\* The request carries no webhook events and its __ow_path, with a leading
\* '/' added if absent, does not contain '/overview/trainingId/'.
NoEventsNoOverlayPath ==
  /\ ~HasWebhookEvents(params, hClock)
  /\ Get(params, "__ow_path").k = "string"
  /\ ~Includes(NormalizedPath(Get(params, "__ow_path")), S_OverlayPrefix)

NotFoundWithoutRequests ==
  /\ requests = <<>>
  /\ pubPc = "idle"
  /\ pc = "returned" => (returned[1].statusCode = 404 /\ returned[1].contentType = "error")

FreshToken(storage, now) ==
  /\ storage.alm_access_token.k # "null"
  /\ storage.alm_token_expiry.k # "null"
  /\ parseInt(storage.alm_token_expiry.s) # <<>>
  /\ now < parseInt(storage.alm_token_expiry.s)[1] - 300000

\* C11: getAccessToken returns the stored access token only if
\* alm_access_token and alm_token_expiry are both present and the current
\* time is strictly less than the expiry minus 300000 ms; in every other
\* state of sessionStorage, an expiry that parses to no number included, it
\* returns null. A non-empty token that is fresh is returned.
C11_GetAccessToken ==
  aGot # <<>> =>
    LET g == aGot[1]
    IN /\ g.result # JNull =>
            (FreshToken(g.storage, g.now) /\ g.result = g.storage.alm_access_token)
       /\ ~FreshToken(g.storage, g.now) => g.result = JNull
       /\ (FreshToken(g.storage, g.now) /\ g.storage.alm_access_token.s # <<>>) =>
            g.result = g.storage.alm_access_token

\* getAccessToken returned the stored token after time had passed.
C11_Witness ==
  /\ aGot # <<>>
  /\ aGot[1].result.k = "string"
  /\ aGot[1].now > 0

\* C12: one call of makeAuthenticatedRequest issues at most two API
\* requests; the second is issued only after a 401 answer to the first and a
\* successful refresh, carries the refreshed token, which is also the stored
\* one, and is issued exactly once; its response is what the call returns,
\* a 401 included.
C12_RetryAtMostOnce ==
  LET api == ApiRequestsOf(aRequests)
  IN /\ Len(api) <= 2
     /\ Len(aReplies) <= 2
     /\ Len(api) = 2 =>
          /\ aReplies # <<>>
          /\ aReplies[1] = 401
          /\ aRequests[Len(aRequests) - 1].kind = "token"
          /\ api[2].authorization = JStr(S_oauth \o aStorage.alm_access_token.s)
     /\ aPc = "request2" => Len(api) = 2
     /\ (aPc = "done" /\ Len(aReplies) = 2) =>
          aResult = <<IF aReplies[2] = 0 THEN RejectedResult
                      ELSE ApiResponse(aReplies[2], Len(aRequests))>>

\* The retried request was answered 401 again, and the call returned it.
C12_Witness ==
  /\ aPc = "done"
  /\ Len(aReplies) = 2
  /\ aReplies[2] = 401
  /\ aResult = <<ApiResponse(401, Len(aRequests))>>
  /\ Len(ApiRequestsOf(aRequests)) = 2

\* The tab buttons that have class active.
ActiveTabs == {i \in 1..Len(oTabs) : oTabs[i]}

\* C13 as stated: after the course-overview block is decorated only the
\* 'Modules' button is active, and after any clicks on tab buttons exactly
\* the button clicked last is active.
C13_SingleActiveTab ==
  oPc = "decorated" => ActiveTabs = {IF oLast = 0 THEN 1 ELSE oLast}

\* C13, amended: after the block is decorated exactly one tab button is
\* active; before any click it is 'Modules'; when decorate found a course id
\* and so attached the click listeners it is the button clicked last, and
\* otherwise it stays 'Modules'.
C13_SingleActiveTabWhenWired ==
  oPc = "decorated" =>
    /\ Cardinality(ActiveTabs) = 1
    /\ oLast = 0 => ActiveTabs = {1}
    /\ (oWired /\ oLast # 0) => ActiveTabs = {oLast}
    /\ ~oWired => ActiveTabs = {1}

\* 'Notes' is active after two clicks or more, the last one on 'Notes'.
C13_Witness ==
  /\ oPc = "decorated"
  /\ oWired
  /\ oClicks >= 2
  /\ oLast = 2
  /\ ActiveTabs = {2}

\* The meta tag course-id had non-empty content when the run took place.
HadCourseId(run) == run.meta.k = "string" /\ run.meta.s # <<>>

\* C14: a run of decorate of the course-info block adds class
\* course-info-loaded, renders the course widget and installs the two window
\* functions if and only if the meta tag course-id has non-empty content at
\* that time; otherwise the block shows the placeholder, loading or error
\* message and none of these effects occur.
C14_RendersOnlyWithCourseId ==
  /\ \A k \in 1..Len(iRuns) :
       IF HadCourseId(iRuns[k])
       THEN /\ iRuns[k].content = "widget"
            /\ iRuns[k].addedClass
            /\ iRuns[k].setWindow
       ELSE /\ iRuns[k].content \in {"placeholder", "loading", "error"}
            /\ ~iRuns[k].addedClass
            /\ ~iRuns[k].setWindow
  /\ iLoaded <=> \E k \in 1..Len(iRuns) : HadCourseId(iRuns[k])
  /\ iWindow <=> \E k \in 1..Len(iRuns) : HadCourseId(iRuns[k])
  /\ iContent = (IF iRuns = <<>> THEN "authored" ELSE iRuns[Len(iRuns)].content)

\* The block first showed the loading message, and rendered the widget when
\* decorate ran again with the meta tag present.
C14_Witness ==
  /\ Len(iRuns) = 2
  /\ iRuns[1].content = "loading"
  /\ iRuns[2].content = "widget"
  /\ iLoaded
  /\ iWindow

\* C15: the authentication action returns statusCode 200 with the token
\* document as body only when the token endpoint answered ok; an answer that
\* is not ok is returned as an error response with the upstream status; a
\* network failure or any exception (initState failing, a body that cannot
\* be read or parsed) is returned as a 500 'server error' response; main
\* never throws.
C15_AuthenticationResponses ==
  /\ tPc # "threw"
  /\ tPc = "returned" <=> tReturned # <<>>
  /\ tReturned # <<>> =>
       LET r == tReturned[1]
       IN /\ r.statusCode = 200 =>
               /\ tReply # <<>>
               /\ tReply[1].kind = "ok"
               /\ r.error = <<>>
               /\ r.body = tReply[1].doc
          /\ (tReply # <<>> /\ tReply[1].kind = "ok") => r.statusCode = 200
          /\ (tReply # <<>> /\ tReply[1].kind = "notok") =>
               /\ r.error # <<>>
               /\ r.statusCode = tReply[1].status
          /\ ((tReply # <<>> /\ tReply[1].kind \in {"error", "unparsable", "unreadable"})
              \/ tState = "failed") =>
               r = [statusCode |-> 500, error |-> <<"server error">>, body |-> JUndef]

\* The token endpoint answered 401, and the action returned an error
\* response with status 401.
C15_Witness ==
  /\ tReply # <<>>
  /\ tReply[1].kind = "notok"
  /\ tReply[1].status = 401
  /\ tReturned # <<>>
  /\ tReturned[1].statusCode = 401
  /\ tReturned[1].error # <<>>


\* C16: a request whose message is "Test Connection" is answered with status
\* 200 and a JSON body of status 'success', and neither an ALM request nor an
\* EDS publish is ever made for it, whatever events, body or __ow_path the
\* request also carries.
C16_TestConnection ==
  IsTestConnection =>
    /\ requests = <<>>
    /\ pubPc = "idle"
    /\ pc \in {"start", "returned"}
    /\ pc = "returned" =>
         returned = <<Response(200, "application/json", "success", <<>>)>>

\* A connection test that also carries a course overlay path and a publish
\* token has been answered.
C16_Witness ==
  /\ IsTestConnection
  /\ pc = "returned"
  /\ Truthy(Get(params, "EDS_AUTH_TOKEN"))
  /\ Get(params, "__ow_path") = JStr(OverlayPath(CourseId7))


\* The first event of the webhook payload main found, and its data.loId.
FirstEvent == Get(Get(FindWebhookData(params, hClock), "events"), "0")
FirstLoId == Dig(FirstEvent, <<"data", "loId">>)

\* C17: whenever main finds a non-empty events array, only the first event
\* decides and __ow_path is ignored: a first event without data.loId is
\* answered 400 'Missing loId in event data', a loId that does not split on
\* ':' into exactly two parts is answered 400 'Invalid loId format', and
\* otherwise the course id is the part of the loId after the ':'.
C17_WebhookPrecedence ==
  (HasWebhookEvents(params, hClock) /\ ~IsTestConnection /\ pc # "start") =>
    IF ~Truthy(FirstLoId)
    THEN requests = <<>>
         /\ returned = <<errorResponse(400, "Missing loId in event data")>>
    ELSE IF FirstLoId.k # "string" \/ Len(Split(FirstLoId.s, ":")) # 2
    THEN requests = <<>>
         /\ returned = <<errorResponse(400, "Invalid loId format")>>
    ELSE courseId = JStr(Split(FirstLoId.s, ":")[2])

\* C17 for payloads whose first event is not null and whose loId, if present,
\* is a string.
C17_WellFormedWebhookPrecedence ==
  (Nullish(FirstEvent) \/ (Truthy(FirstLoId) /\ FirstLoId.k # "string"))
  \/ C17_WebhookPrecedence

\* The payloads on which main diverges are answered 500.
C17_MalformedEventIsServerError ==
  (/\ HasWebhookEvents(params, hClock) /\ ~IsTestConnection /\ pc # "start"
   /\ (Nullish(FirstEvent) \/ (Truthy(FirstLoId) /\ FirstLoId.k # "string")))
  => returned = <<errorResponse(500, "server error")>>


\* The segments of params.__ow_path, and what the statement reads off them.
OwPath == Get(params, "__ow_path")
OwPathParts == IF OwPath.k = "string" /\ OwPath.s # <<>>
               THEN PathParts(NormalizedPath(OwPath)) ELSE <<>>
IsOverlayPath == OwPath.k = "string" /\ OwPath.s # <<>>
                 /\ Includes(NormalizedPath(OwPath), S_OverlayPrefix)
HasCourseSegments ==
  Len(OwPathParts) >= 3 /\ OwPathParts[1] = S_overview /\ OwPathParts[2] = S_trainingId
HasInstanceSegments ==
  Len(OwPathParts) >= 5 /\ OwPathParts[4] = S_trainingInstanceId
BadRequestWithoutRequests ==
  /\ requests = <<>>
  /\ pubPc = "idle"
  /\ Len(returned) = 1 /\ returned[1].statusCode = 400
PathRouting ==
  /\ (~HasWebhookEvents(params, hClock) /\ ~Truthy(OwPath)) => BadRequestWithoutRequests
  /\ (IsOverlayPath /\ ~HasCourseSegments) => BadRequestWithoutRequests
  /\ (IsOverlayPath /\ HasCourseSegments) =>
       /\ courseId = JStr(OwPathParts[3])
       /\ instanceId = IF HasInstanceSegments THEN JStr(OwPathParts[5]) ELSE JNull

\* C18: main answers 400 without any ALM request when the request has neither
\* a webhook event nor __ow_path, and when __ow_path contains
\* '/overview/trainingId/' but its segments do not start with 'overview',
\* 'trainingId', <id>; for /overview/trainingId/{c}/trainingInstanceId/{i} the
\* course id is c and the instance id is i, and the instance id stays null
\* without the trainingInstanceId pair.
C18_PathRouting == pc # "start" => PathRouting

\* C18 for requests that are no connection test and, for the statements about
\* the path, carry no webhook events.
C18_PathRoutingAmended ==
  (pc # "start" /\ ~IsTestConnection
   /\ (Truthy(OwPath) => ~HasWebhookEvents(params, hClock)))
  => PathRouting

\* A path that contains '/overview/trainingId/' after another segment has
\* been answered 400.
C18_Witness ==
  /\ params = PathRequest(<<"/","x">> \o OverlayPath(CourseId7))
  /\ pc = "returned"
  /\ returned = <<errorResponse(400, "Could not extract course ID from request")>>

\* A path with both segment pairs has its course and instance id in use.
C18_InstanceWitness ==
  /\ params = PathRequest(Tail(InstancePath(CourseId7, InstanceId71)))
  /\ courseId = JStr(CourseId7)
  /\ instanceId = JStr(InstanceId71)
  /\ pc = "returned"


\* fetchCourseData has returned null to main.
NullCourseData == courseId # JNull /\ pc \in {"fetched", "returned"} /\ ~Truthy(fetched)

\* publishToEdsCache has been invoked.
PublishStarted == pubPc # "idle"

\* C19: when fetchCourseData returns null (both endpoints not ok, or a fetch
\* error) main answers 404 'Course not found' and publishToEdsCache is never
\* invoked; an EDS publish is started only on the path that returns the 200
\* HTML response.
C19_NoPublishWithoutCourse ==
  /\ (/\ pc \in {"fetched", "returned"} /\ courseReplies # <<>>
      /\ \/ courseReplies[Len(courseReplies)].status = "error"
         \/ (Len(courseReplies) = 2 /\ courseReplies[2].status = "notok"))
     => NullCourseData
  /\ NullCourseData =>
       /\ ~PublishStarted /\ ~pubCatch
       /\ PublisherRequests = <<>> /\ EdsPosts = <<>>
       /\ pc = "returned" => returned = <<errorResponse(404, "Course not found")>>
  /\ PublishStarted =>
       /\ pc \in {"publishing", "returned"}
       /\ Len(prepared) = 1
       /\ prepared[1].statusCode = 200 /\ prepared[1].contentType = "text/html"
       /\ pc = "returned" => returned = prepared

\* Both endpoints answered not ok and main has returned the 404, for a
\* request that carries a publish token.
C19_Witness ==
  /\ NullCourseData
  /\ pc = "returned"
  /\ Len(courseReplies) = 2
  /\ Truthy(Get(params, "EDS_AUTH_TOKEN"))
  /\ returned = <<errorResponse(404, "Course not found")>>


\* C20: main never throws or rejects: whatever the request and whatever the
\* ALM API answers (an ok answer without data included), main is at one of its
\* awaits or has returned a response whose status code is 200, 400, 404 or
\* 500, and an exception raised while processing is answered 500 'server
\* error'.
C20_MainAlwaysResponds ==
  /\ pc \in {"start", "awaitCourse", "awaitProgram", "fetched", "prepared",
              "publishing", "returned"}
  /\ pc = "returned" =>
       /\ Len(returned) = 1
       /\ returned[1].statusCode \in {200, 400, 404, 500}
  /\ (pc # "start" /\ Route(params, hClock).kind = "throw") =>
       returned = <<errorResponse(500, "server error")>>
  /\ (pc = "returned" /\ Truthy(fetched) /\ processCourseDataThrows(fetched)) =>
       returned = <<errorResponse(500, "server error")>>

\* The ALM API answered ok with a document without data, and main returned
\* the 500 response.
C20_Witness ==
  /\ pc = "returned"
  /\ fetched = JObj(<<>>)
  /\ returned = <<errorResponse(500, "server error")>>

\* A request whose __ow_path is no string raised a TypeError, answered 500.
C20_ThrowWitness ==
  /\ Route(params, hClock).kind = "throw"
  /\ Get(params, "__ow_path") = JNum(7)
  /\ returned = <<errorResponse(500, "server error")>>


\* The EDS form of an ALM instance id as the statement describes it: the text
\* after the first ':' with '_' replaced by '-' when the id has both.
AfterFirstColon(id) == SubSeq(id, IndexOfChar(id, ":") + 1, Len(id))
UnderscoresReplaced(str) == [i \in 1..Len(str) |-> IF str[i] = "_" THEN "-" ELSE str[i]]
StatedEdsInstanceId(id) ==
  IF Includes(id, <<":">>) /\ Includes(id, <<"_">>)
  THEN UnderscoresReplaced(AfterFirstColon(id))
  ELSE id

\* fetchCourseInstances has returned, and the reply that ended its requests.
InstancesFetched ==
  instanceReplies # <<>> /\ pubPc \in {"awaitInstancePosts", "awaitPost", "done"}
LastInstanceReply == instanceReplies[Len(instanceReplies)]

\* The list has one entry per reference, in order, with the ids that satisfy
\* simple converted as stated and the original kept in almId.
InstancesConverted(simple(_)) ==
  LET reply == LastInstanceReply
      refs == InstanceRefs(reply.doc)
  IN IF reply.status = "ok" /\ ~InstancesThrow(reply.doc)
     THEN /\ Len(instances) = Len(refs)
          /\ \A i \in 1..Len(refs) :
               /\ instances[i].almId = Get(refs[i], "id")
               /\ simple(Get(refs[i], "id").s) =>
                    instances[i].id = JStr(StatedEdsInstanceId(Get(refs[i], "id").s))
     ELSE instances = <<>>

\* C22: fetchCourseInstances converts every instance id: an id with both ':'
\* and '_' becomes the text after the first ':' with '_' replaced by '-', any
\* other id is kept, the original is kept in almId, the list has one entry per
\* entry of relationships.instances.data in the same order, and it is empty
\* after a not-ok answer from both endpoints or an exception.
C22_InstanceIdsConverted ==
  InstancesFetched => InstancesConverted(LAMBDA id : TRUE)

\* C22 for ids with at most one '_'.
C22_SingleUnderscoreIdsConverted ==
  InstancesFetched =>
    InstancesConverted(LAMBDA id : Cardinality({i \in 1..Len(id) : id[i] = "_"}) <= 1)


\* C21: the POSTs of one publishToEdsCache call are determined by its inputs:
\* none, and no instance lookup, without params.EDS_AUTH_TOKEN; exactly one,
\* to the instance URL and without lookup, when instanceId is given; otherwise
\* one per instance fetchCourseInstances returned, whatever becomes of the
\* others, and exactly one to the course-level URL when it returned none.
C21_PostsDeterminedByInputs ==
  PublishStarted =>
    IF ~Truthy(Get(params, "EDS_AUTH_TOKEN")) THEN PublisherRequests = <<>>
    ELSE IF Truthy(instanceId)
    THEN PublisherRequests = <<EdsPost(courseId, "instance", instanceId)>>
    ELSE IF ~InstancesFetched THEN EdsPosts = <<>>
    ELSE IF Len(instances) > 0
    THEN EdsPosts = [i \in 1..Len(instances) |->
                       EdsPost(courseId, "instance", instances[i].id)]
    ELSE EdsPosts = <<EdsPost(courseId, "course", JNull)>>

\* The publisher has finished for two instances: the first POST threw, the
\* second was still sent and succeeded.
C21_Witness ==
  /\ pubPc = "done"
  /\ pubResults = <<"error", "ok">>
  /\ Len(EdsPosts) = 2
  /\ EdsPosts[2].instanceId = instances[2].id.s

\* The publisher has finished with the course-level POST after a lookup that
\* returned no instances.
C21_CourseLevelWitness ==
  /\ pubPc = "done"
  /\ InstancesFetched
  /\ instances = <<>>
  /\ EdsPosts = <<EdsPost(courseId, "course", JNull)>>


\* The value of a field of the form data posted upstream, <<>> if absent.
FieldValues(request, name) ==
  {request.formData[i][2] : i \in {j \in 1..Len(request.formData) :
                                     request.formData[j][1] = name}}
HasField(request, name, value) == FieldValues(request, name) = {JToString(value)}
FieldNames(request) == {request.formData[i][1] : i \in 1..Len(request.formData)}

\* The values present in the parameters of the authentication action.
TokenParamValues == {JToString(tParams.kids[i][2]) : i \in 1..Len(tParams.kids)}

\* The flow is selected by params.code, and each flow posts its fields to its
\* endpoint; a code without both client credentials is answered 400 with no
\* upstream request.
FlowSelected ==
  /\ (Truthy(Get(tParams, "code")) /\ tPc # "start"
      /\ (~Truthy(Get(tParams, "ALM_CLIENT_ID"))
          \/ ~Truthy(Get(tParams, "ALM_CLIENT_SECRET")))) =>
       /\ tRequests = <<>>
       /\ tPc = "returned" /\ tReturned[1].statusCode = 400
  /\ tRequests # <<>> =>
       /\ Len(tRequests) = 1
       /\ IF Truthy(Get(tParams, "code"))
          THEN /\ tRequests[1].endpoint = "/oauth/token"
               /\ FieldNames(tRequests[1]) =
                    {"redirect_uri", "code", "grant_type", "client_id", "client_secret"}
               /\ HasField(tRequests[1], "code", Get(tParams, "code"))
               /\ HasField(tRequests[1], "redirect_uri", Get(tParams, "redirect_uri"))
               /\ HasField(tRequests[1], "grant_type", JStr(S_authorization_code))
               /\ HasField(tRequests[1], "client_id", Get(tParams, "ALM_CLIENT_ID"))
               /\ HasField(tRequests[1], "client_secret", Get(tParams, "ALM_CLIENT_SECRET"))
          ELSE /\ tRequests[1].endpoint = "/oauth/token/refresh"
               /\ FieldNames(tRequests[1]) = {"refresh_token", "client_id", "client_secret"}
               /\ HasField(tRequests[1], "refresh_token",
                           Get(tParams, "ALM_ADMIN_REFRESH_TOKEN"))
               /\ HasField(tRequests[1], "client_id", Get(tParams, "ALM_ADMIN_CLIENT_ID"))
               /\ HasField(tRequests[1], "client_secret",
                           Get(tParams, "ALM_ADMIN_CLIENT_SECRET"))

\* Every credential posted upstream is a value of the parameters.
CredentialsFromParams ==
  \A k \in 1..Len(tRequests) :
    \A name \in {"code", "client_id", "client_secret", "refresh_token"} :
      FieldValues(tRequests[k], name) \subseteq TokenParamValues

\* C23: the authentication action selects its flow from params.code: with a
\* code it posts code, redirect_uri, grant_type=authorization_code and the
\* client credentials to the token endpoint, or answers 400 with no upstream
\* request if a client credential is missing; without a code it posts the
\* admin refresh token and admin credentials to the refresh endpoint; every
\* credential sent upstream is a value that was present in params.
C23_FlowAndCredentials == FlowSelected /\ CredentialsFromParams

\* C23 without its last sentence.
C23_FlowSelected == FlowSelected

\* C23's last sentence for the authorization-code flow.
C23_CodeFlowCredentialsFromParams ==
  Truthy(Get(tParams, "code")) => CredentialsFromParams


\* The enrolment POSTs sent so far, and those of one call.
EnrollmentPosts == SelectSeq(kRequests, LAMBDA r : r.method = "POST")
PostsOf(h) == SelectSeq(kRequests, LAMBDA r : r.method = "POST" /\ r.handler = h)

\* C24: handleModuleClick enrols before it plays: the enrolment POST is sent
\* exactly when checkEnrollmentStatus reported the user as not enrolled (a
\* failed status check included), the player is opened only for a user
\* reported enrolled or after the POST returned a document, and after a
\* failed POST no player is opened and an alert is shown.
C24_EnrolBeforePlay ==
  \A h \in 1..Len(kHandlers) :
    LET c == kHandlers[h]
    IN /\ c.pc # "checking" =>
            /\ Len(PostsOf(h)) = (IF c.isEnrolled THEN 0 ELSE 1)
            /\ c.checkFailed => ~c.isEnrolled
       /\ c.pc = "checking" => (PostsOf(h) = <<>> /\ ~c.opened)
       /\ c.opened => (c.isEnrolled \/ c.enrollmentResult = "document")
       /\ (c.pc = "done" /\ ~c.isEnrolled /\ c.enrollmentResult # "document") =>
            (~c.opened /\ c.alerted /\ h \notin kOverlays)
       /\ c.alerted => (~c.isEnrolled /\ c.enrollmentResult = "null")

\* A status check failed, the enrolment POST was sent and failed too: the
\* alert was shown and no player opened.
C24_Witness ==
  \E h \in 1..Len(kHandlers) :
    /\ kHandlers[h].checkFailed
    /\ kHandlers[h].pc = "done"
    /\ kHandlers[h].alerted
    /\ Len(PostsOf(h)) = 1
    /\ kOverlays = {}

\* The player was opened after the enrolment POST returned a document.
C24_EnrolledWitness ==
  \E h \in 1..Len(kHandlers) :
    /\ kHandlers[h].enrollmentResult = "document"
    /\ kHandlers[h].opened
    /\ h \in kOverlays

\* The user was not enrolled when the page was loaded.
NotEnrolledAtFirst ==
  ~kEnrolled \/ \E h \in 1..Len(kHandlers) : kHandlers[h].enrollmentResult = "document"

\* C25: under any interleaving of clicks on module items and the Continue
\* button, for a user who is not yet enrolled at most one enrolment POST is
\* sent for the course and at most one player overlay is in the document.
C25_OneEnrolmentOnePlayer ==
  NotEnrolledAtFirst =>
    /\ Len(EnrollmentPosts) <= 1
    /\ Cardinality(kOverlays) <= 1



\* The URL handleCallback is to navigate to after a successful login.
ReturnUrl == Or(cReturnUrl, JStr(<<"/">>)).s

\* C26: handleCallback navigates to the stored auth_return_url (default '/')
\* and removes auth_return_url only after the code exchange succeeded, the
\* tokens were stored and the user info was fetched and stored, in that
\* order; when the exchange or the user-info fetch fails it navigates to
\* '/login?error=auth_failed' and never to the return URL.
C26_ReturnOnlyAfterLogin ==
  /\ cLocation \in {S_callbackPage, S_loginError, ReturnUrl}
  /\ (cLocation = ReturnUrl \/ cStorage.auth_return_url # cReturnUrl) =>
       /\ cSteps = <<"exchangeRequest", "storeTokens", "userRequest",
                     "storeUserInfo", "removeReturnUrl", "navigate">>
       /\ cReplies = <<"ok", "ok">>
       /\ cUserInfo
       /\ Truthy(cStorage.alm_access_token)
       /\ cStorage.auth_return_url = JNull
       /\ cLocation = ReturnUrl
  /\ (cPc = "done" /\ cReplies # <<"ok", "ok">>) =>
       /\ cLocation = S_loginError
       /\ cStorage.auth_return_url = cReturnUrl
  /\ cPc # "done" => cLocation = S_callbackPage

\* The login succeeded and the page navigated to the stored return URL.
C26_Witness ==
  /\ cPc = "done"
  /\ cReturnUrl = JStr(<<"/","c">>)
  /\ cLocation = <<"/","c">>
  /\ cStorage.auth_return_url = JNull

\* The exchange succeeded but the user-info fetch failed: the page went to
\* the login error page and the return URL is still stored.
C26_FailureWitness ==
  /\ cPc = "done"
  /\ cReplies = <<"ok", "notok">>
  /\ cLocation = S_loginError
  /\ cStorage.auth_return_url = JStr(<<"/","c">>)

====
